---- MODULE Spec2Model ----
(***************************************************************************)
(* State-machine model of GymDesktopExtractor.processEvents, the single    *)
(* pass that turns a raw desktop input log (mouse, keyboard, wheel) into   *)
(* semantic actions (mouseclick, mousedrag, type, hotkey, mousewheel).     *)
(*                                                                         *)
(* The repository holds two copies of the extractor with the same state    *)
(* machine: src/src/stages/extraction/simple-extractor.ts (one key         *)
(* vocabulary) and src/unnamed/part_002 (two key vocabularies).  The       *)
(* definitions follow part_002; on the keys of the first vocabulary the    *)
(* two copies behave identically.                                          *)
(*                                                                         *)
(* Values of type `T | null` are modelled as sequences: NULL is <<>> and   *)
(* a present value v is <<v>>.  A JavaScript Set is modelled as a          *)
(* duplicate-free sequence in insertion order, which is the order          *)
(* Array.from yields.  A string of typed characters is a sequence of       *)
(* records [ch, at]: ch is the character, at the time of the keydown that  *)
(* appended it (a history tag the handlers never read).                    *)
(*                                                                         *)
(* Times and coordinates are integers.  The interpolation of               *)
(* resamplePoints is computed in IEEE-754 binary64, as the program does:   *)
(* a quotient such as 7/10 is not a double, and the floor of a product     *)
(* that is mathematically an integer depends on how it was rounded.        *)
(*                                                                         *)
(* Specifications: Spec, SpecKeys, SpecButtons and SpecEpoch run           *)
(* processEvents over logs of different alphabets; SpecResample calls      *)
(* resamplePoints on its own, on paths drawn from bounded sets.            *)
(***************************************************************************)
EXTENDS Integers, Sequences, FiniteSets, TLC

VARIABLES
  processedEvents,    \* the output array
  mouseDown, mouseDownTime, mouseDownPos, accumulatedPoints,
  activeModifiers, sequenceModifiers,
  currentText, textStartTime, lastKeyTime, lastKnownPos,
  epoch,              \* events[0].time
  clock,              \* absolute time of the event being read
  log,                \* the events consumed so far: [e, t, abs, pre]
  pc,                 \* "loop" while iterating, "returned" after the return
  call,               \* a direct call of resamplePoints: its arguments and
                      \* its result; NULL in a run of processEvents
  other,              \* a second invocation of processEvents, for another
                      \* session: its locals, its input so far and its
                      \* position; NULL when there is none
  file,               \* the input log process() reads: its lines and the
                      \* records parsed; NULL when processEvents is called
                      \* on an array
  session,            \* the grading-mode run of one session in index.ts:
                      \* its files, its position and what it has called
                      \* and written; NULL outside grading mode
  grader,             \* a call of Grader.chunkMessages or Grader.grade: its
                      \* arguments, loop variables and result; NULL outside
  retry,              \* a call of withRetry: its arguments, loop index and
                      \* outcome; NULL outside
  loader              \* the downloader's batch loop: the session ids, where
                      \* each one stands and the loop index; NULL outside

progVars == <<processedEvents, mouseDown, mouseDownTime, mouseDownPos,
              accumulatedPoints, activeModifiers, sequenceModifiers,
              currentText, textStartTime, lastKeyTime, lastKnownPos>>
\* What lies outside one invocation of processEvents on an array.
toolVars == <<grader, retry, loader>>
restVars == <<other, file, session, toolVars>>
vars == <<progVars, epoch, clock, log, pc, call, restVars>>

----------------------------------------------------------------------------
(* Bounds of the model *)

MaxEvents == 4
\* Longest path of a direct call of resamplePoints, over the positions of
\* the model and along a line.
MaxPathLen == 3
MaxLineLen == 12
\* Most events read by the second of two interleaved invocations.
MaxOtherEvents == 2
\* Most lines of an input log read by process().
MaxFileLines == 3
\* Longest text between the answer tags of the final evaluation.
MaxAnswerLen == 3
\* Longest log of modifier presses and releases around one key.
MaxModifierEvents == 5
\* Most messages of an sft.json handed to chunkMessages, and largest chunk
\* size.
MaxMessages == 8
MaxChunkSize == 4
\* Most chunks of one call of grade.
MaxChunks == 4
\* Largest retries argument of withRetry.
MaxRetries == 4
\* Largest number of session ids in the downloaded list.
MaxIds == 6

(* Program constants *)

CLICK_THRESHOLD_PX == 5
CLICK_THRESHOLD_MS == 500
IdleFlushMs == 1000
DefaultNumPoints == 8

----------------------------------------------------------------------------
(* Optional values and JavaScript truthiness *)

NULL == <<>>
Some(v) == <<v>>
Val(o) == o[1]

\* `if (n)` / `!n` / `n || d` on a number | null: null and 0 are both falsy.
TruthyNum(o) == o # NULL /\ Val(o) # 0

\* Set.add / Set.delete on an insertion-ordered set.
\* Defective variant of SetAdd: adding a member again moves it to the end.
SetAddLast(s, k) == Append(SelectSeq(s, LAMBDA m : m # k), k)
SetAdd(s, k) == IF \E i \in 1..Len(s) : s[i] = k THEN s ELSE Append(s, k)
SetDelete(s, k) == SelectSeq(s, LAMBDA m : m # k)
SetHas(s, k) == \E i \in 1..Len(s) : s[i] = k

----------------------------------------------------------------------------
(* Key tables *)

symbolMap ==
  [Space |-> " ", BackTick |-> "`", BackSlash |-> "\\", ForwardSlash |-> "/", Plus |-> "+",
   LeftSquareBracket |-> "[", RightSquareBracket |-> "]", Apostrophe |-> "'",
   Hash |-> "#", Add |-> "+", Subtract |-> "-", Multiply |-> "*",
   Divide |-> "/", Decimal |-> ".", FullStop |-> ".",
   BackQuote |-> "`", Slash |-> "/", Equal |-> "=", Dot |-> ".",
   LeftBracket |-> "[", RightBracket |-> "]", Quote |-> "'",
   Zero |-> "0", One |-> "1", Two |-> "2", Three |-> "3", Four |-> "4",
   Five |-> "5", Six |-> "6", Seven |-> "7", Eight |-> "8", Nine |-> "9",
   Num0 |-> "0", Num1 |-> "1", Num2 |-> "2", Num3 |-> "3", Num4 |-> "4",
   Num5 |-> "5", Num6 |-> "6", Num7 |-> "7", Num8 |-> "8", Num9 |-> "9",
   Minus |-> "-", Comma |-> ",", SemiColon |-> ";"]

shiftSymbolMap ==
  [Zero |-> ")", One |-> "!", Two |-> "@", Three |-> "#", Four |-> "$",
   Five |-> "%", Six |-> "^", Seven |-> "&", Eight |-> "*", Nine |-> "(",
   Num0 |-> ")", Num1 |-> "!", Num2 |-> "@", Num3 |-> "#", Num4 |-> "$",
   Num5 |-> "%", Num6 |-> "^", Num7 |-> "&", Num8 |-> "*", Num9 |-> "(",
   BackTick |-> "~", Plus |-> "+", LeftSquareBracket |-> "{",
   RightSquareBracket |-> "}", BackSlash |-> "|", Apostrophe |-> "\"",
   ForwardSlash |-> "?",
   FullStop |-> ">", BackQuote |-> "~", Equal |-> "+", LeftBracket |-> "{",
   RightBracket |-> "}", Slash |-> "?", Dot |-> ">", Quote |-> "\"",
   Minus |-> "_", Comma |-> "<", SemiColon |-> ":"]

isSpecialKey(key) ==
  key \in {"Shift", "LeftCtrl", "RightCtrl", "LeftAlt", "RightAlt",
           "Return", "Backspace", "Tab", "Escape",
           "Left", "Right", "Up", "Down",
           "Home", "End", "PageUp", "PageDown", "Insert", "Delete",
           "F1", "F2", "F3", "F4", "F5", "F6", "F7", "F8", "F9", "F10",
           "F11", "F12", "CapsLock", "Pause", "PrintScreen", "Numlock",
           "ShiftLeft", "ShiftRight", "ControlLeft", "ControlRight",
           "Alt", "AltGr", "MetaLeft", "MetaRight",
           "LeftArrow", "RightArrow", "UpArrow", "DownArrow", "Function"}

isComboKey(key) ==
  key \in {"Shift", "LeftCtrl", "RightCtrl", "LeftAlt", "RightAlt",
           "ShiftLeft", "ShiftRight", "ControlLeft", "ControlRight",
           "Alt", "AltGr", "MetaLeft", "MetaRight"}

\* /^[A-Z]$/ and /^Key[A-Z]$/ on the letters the model's alphabets use.
isWindowsLetter(key) == key \in {"A", "B", "C"}
isMacLetter(key) == key \in {"KeyA", "KeyB", "KeyC"}

\* key.slice(3) on a Mac letter id.
sliceKey ==
  [KeyA |-> "A", KeyB |-> "B", KeyC |-> "C"]

\* String.prototype.toLowerCase on the key ids and letters the model uses.
toLowerCase ==
  [A |-> "a", B |-> "b", C |-> "c", KeyA |-> "keya", KeyB |-> "keyb",
   KeyC |-> "keyc", Return |-> "return", Tab |-> "tab", One |-> "one",
   Foo |-> "foo", Shift |-> "shift", ShiftLeft |-> "shiftleft",
   LeftCtrl |-> "leftctrl", ControlLeft |-> "controlleft"]

----------------------------------------------------------------------------
(* The engine state as one record, and the actions pushed to the output *)

Cur ==
  [processedEvents |-> processedEvents, mouseDown |-> mouseDown,
   mouseDownTime |-> mouseDownTime, mouseDownPos |-> mouseDownPos,
   accumulatedPoints |-> accumulatedPoints,
   activeModifiers |-> activeModifiers,
   sequenceModifiers |-> sequenceModifiers, currentText |-> currentText,
   textStartTime |-> textStartTime, lastKeyTime |-> lastKeyTime,
   lastKnownPos |-> lastKnownPos]

InitState ==
  [processedEvents |-> <<>>, mouseDown |-> FALSE, mouseDownTime |-> NULL,
   mouseDownPos |-> NULL, accumulatedPoints |-> <<>>,
   activeModifiers |-> <<>>, sequenceModifiers |-> <<>>,
   currentText |-> <<>>, textStartTime |-> NULL, lastKeyTime |-> NULL,
   lastKnownPos |-> NULL]

TypeAction(ts, text) ==
  [type |-> "type", timestamp |-> ts, data |-> [text |-> text]]
ClickAction(ts, pos) ==
  [type |-> "mouseclick", timestamp |-> ts, data |-> [x |-> pos.x, y |-> pos.y]]
DragAction(ts, pts) ==
  [type |-> "mousedrag", timestamp |-> ts, data |-> [coordinates |-> pts]]
\* The combo string is kept as its '-'-separated parts.
HotkeyAction(ts, parts) ==
  [type |-> "hotkey", timestamp |-> ts, data |-> [text |-> parts]]
WheelAction(ts, delta) ==
  [type |-> "mousewheel", timestamp |-> ts, data |-> [delta |-> delta]]

Push(s, a) == [s EXCEPT !.processedEvents = Append(@, a)]

----------------------------------------------------------------------------
(* Numbers: the arithmetic of resamplePoints is IEEE-754 binary64.  A      *)
(* finite double is kept exactly as (-1)^neg * m * 2^e with m a natural    *)
(* number of at most 53 significant bits, written as a little-endian       *)
(* sequence of limbs; every operation computes the exact result and rounds *)
(* it to nearest, ties to even.                                            *)

LimbBits == 15
MantissaBits == 53
GuardBits == 70

RECURSIVE Pow2(_)
Pow2(n) == IF n = 0 THEN 1 ELSE 2 * Pow2(n - 1)

LimbBase == Pow2(LimbBits)

Abs(n) == IF n < 0 THEN 0 - n ELSE n

RECURSIVE BigNorm(_)
BigNorm(a) ==
  IF a # <<>> /\ a[Len(a)] = 0 THEN BigNorm(SubSeq(a, 1, Len(a) - 1)) ELSE a

RECURSIVE BigFromNat(_)
BigFromNat(n) ==
  IF n = 0 THEN <<>> ELSE <<n % LimbBase>> \o BigFromNat(n \div LimbBase)

RECURSIVE BigToNat(_)
BigToNat(a) == IF a = <<>> THEN 0 ELSE a[1] + LimbBase * BigToNat(Tail(a))

RECURSIVE BigMulSmall(_, _, _)
\* a * k + carry for 0 <= k < LimbBase
BigMulSmall(a, k, carry) ==
  IF a = <<>> THEN BigFromNat(carry)
  ELSE LET v == a[1] * k + carry
       IN <<v % LimbBase>> \o BigMulSmall(Tail(a), k, v \div LimbBase)

RECURSIVE BigDivSmall(_, _)
\* quotient and remainder of a by d for 0 < d <= LimbBase
BigDivSmall(a, d) ==
  IF a = <<>> THEN [q |-> <<>>, r |-> 0]
  ELSE LET hi == BigDivSmall(Tail(a), d)
           v == hi.r * LimbBase + a[1]
       IN [q |-> <<v \div d>> \o hi.q, r |-> v % d]

RECURSIVE BigAdd(_, _, _)
BigAdd(a, b, carry) ==
  IF a = <<>> /\ b = <<>> THEN BigFromNat(carry)
  ELSE LET x == IF a = <<>> THEN 0 ELSE a[1]
           y == IF b = <<>> THEN 0 ELSE b[1]
           v == x + y + carry
       IN <<v % LimbBase>>
          \o BigAdd(IF a = <<>> THEN <<>> ELSE Tail(a),
                    IF b = <<>> THEN <<>> ELSE Tail(b), v \div LimbBase)

RECURSIVE BigSub(_, _, _)
\* a - b - borrow for a >= b + borrow (leading zero limbs not removed)
BigSub(a, b, borrow) ==
  IF a = <<>> THEN <<>>
  ELSE LET y == IF b = <<>> THEN 0 ELSE b[1]
           v == a[1] - y - borrow
       IN <<(v + LimbBase) % LimbBase>>
          \o BigSub(Tail(a), IF b = <<>> THEN <<>> ELSE Tail(b),
                    IF v < 0 THEN 1 ELSE 0)

RECURSIVE BigCmp(_, _)
\* -1, 0 or 1 as a < b, a = b or a > b
BigCmp(a, b) ==
  IF Len(a) # Len(b) THEN (IF Len(a) < Len(b) THEN -1 ELSE 1)
  ELSE IF a = <<>> THEN 0
  ELSE IF a[Len(a)] # b[Len(b)] THEN (IF a[Len(a)] < b[Len(b)] THEN -1 ELSE 1)
  ELSE BigCmp(SubSeq(a, 1, Len(a) - 1), SubSeq(b, 1, Len(b) - 1))

BigShl(a, n) ==
  IF a = <<>> THEN <<>>
  ELSE [i \in 1..(n \div LimbBits) |-> 0]
       \o BigNorm(BigMulSmall(a, Pow2(n % LimbBits), 0))

BigShr(a, n) ==
  LET w == n \div LimbBits
      rest == IF w >= Len(a) THEN <<>> ELSE SubSeq(a, w + 1, Len(a))
  IN BigNorm(BigDivSmall(rest, Pow2(n % LimbBits)).q)

RECURSIVE NatBitLen(_)
NatBitLen(n) == IF n = 0 THEN 0 ELSE 1 + NatBitLen(n \div 2)

BitLen(a) ==
  IF a = <<>> THEN 0 ELSE (Len(a) - 1) * LimbBits + NatBitLen(a[Len(a)])

BigIsOdd(a) == a # <<>> /\ a[1] % 2 = 1

\* Round the exact value (-1)^neg * (M + f) * 2^e, where 0 <= f < 1 and
\* sticky says f > 0, to 53 significant bits, nearest, ties to even.
F64Round(neg, M, e, sticky) ==
  LET drop == BitLen(M) - MantissaBits
  IN IF drop <= 0 THEN [neg |-> neg, m |-> M, e |-> e]
     ELSE LET q == BigShr(M, drop)
              r == BigNorm(BigSub(M, BigShl(q, drop), 0))
              c == BigCmp(r, BigShl(<<1>>, drop - 1))
              up == c = 1 \/ (c = 0 /\ (sticky \/ BigIsOdd(q)))
          IN [neg |-> neg, m |-> IF up THEN BigAdd(q, <<1>>, 0) ELSE q,
              e |-> e + drop]

F64FromInt(n) == [neg |-> n < 0, m |-> BigFromNat(Abs(n)), e |-> 0]

\* x / d for an integer d > 0
F64DivInt(x, d) ==
  LET qr == BigDivSmall(BigShl(x.m, GuardBits), d)
  IN F64Round(x.neg, BigNorm(qr.q), x.e - GuardBits, qr.r # 0)

\* x * k for an integer k
F64MulInt(x, k) ==
  F64Round(x.neg # (k < 0), BigNorm(BigMulSmall(x.m, Abs(k), 0)), x.e, FALSE)

\* c + x for an integer c
F64AddInt(c, x) ==
  LET E == IF x.e < 0 THEN x.e ELSE 0
      xm == BigShl(x.m, x.e - E)
      cm == BigShl(BigFromNat(Abs(c)), 0 - E)
  IN IF (c < 0) = x.neg THEN F64Round(x.neg, BigAdd(cm, xm, 0), E, FALSE)
     ELSE IF BigCmp(cm, xm) >= 0
     THEN F64Round(c < 0, BigNorm(BigSub(cm, xm, 0)), E, FALSE)
     ELSE F64Round(x.neg, BigNorm(BigSub(xm, cm, 0)), E, FALSE)

\* x - c for an integer c
F64SubInt(x, c) == F64AddInt(0 - c, x)

\* c < x for an integer c >= 0 and x >= 0
IntLessF64(c, x) ==
  LET E == IF x.e < 0 THEN x.e ELSE 0
  IN BigCmp(BigShl(BigFromNat(c), 0 - E), BigShl(x.m, x.e - E)) = -1

\* Math.floor
F64Floor(x) ==
  IF x.e >= 0
  THEN (IF x.neg THEN -1 ELSE 1) * BigToNat(BigShl(x.m, x.e))
  ELSE LET q == BigShr(x.m, 0 - x.e)
           whole == BigShl(q, 0 - x.e) = x.m
       IN IF x.neg THEN 0 - (BigToNat(q) + (IF whole THEN 0 ELSE 1))
          ELSE BigToNat(q)

----------------------------------------------------------------------------
(* resamplePoints                                                          *)
(* Segment lengths are exact: the pointer positions of the model are       *)
(* chosen so that every segment has an integer length, so Math.sqrt and    *)
(* the running sum are exact.  A 0/0 interpolation parameter is NaN, which *)
(* floors to NaN in all three coordinates.                                 *)

Sqr(n) == n * n
ISqrt(n) == CHOOSE r \in 0..n : Sqr(r) <= n /\ Sqr(r + 1) > n
SegLen(p, q) == ISqrt(Sqr(q.x - p.x) + Sqr(q.y - p.y))

RECURSIVE Segments(_, _)
\* segments[k] for k = 1..i (1-based): cumulative length up to point k.
Segments(points, i) ==
  IF i = 1 THEN <<0>>
  ELSE LET prev == Segments(points, i - 1)
       IN Append(prev, prev[i - 1] + SegLen(points[i - 1], points[i]))

\* const targetLength = (i / (numPoints - 1)) * totalLength
TargetLength(i, numPoints, totalLength) ==
  F64MulInt(F64DivInt(F64FromInt(i), numPoints - 1), totalLength)

RECURSIVE SegIdx(_, _, _)
\* while (segIdx < segments.length && segments[segIdx] < targetLength) segIdx++
\* j is segIdx + 1 (1-based).
SegIdx(segments, j, targetLength) ==
  IF j <= Len(segments) /\ IntLessF64(segments[j], targetLength)
  THEN SegIdx(segments, j + 1, targetLength)
  ELSE j

NaNPoint == [time |-> 0, x |-> 0, y |-> 0, nan |-> TRUE]
Point(t, x, y) == [time |-> t, x |-> x, y |-> y, nan |-> FALSE]

\* Math.floor(a + (b - a) * t)
Lerp(a, b, t) == F64Floor(F64AddInt(a, F64MulInt(t, b - a)))

\* The loop body for one i.  The while loop stops at the first segment
\* end that is not below the target, so a zero-length segment is only
\* chosen with a numerator of 0 as well: t is 0/0, never x/0.
ResampleAt(points, segments, i, numPoints) ==
  LET targetLength == TargetLength(i, numPoints, segments[Len(segments)])
      j == SegIdx(segments, 2, targetLength)
      p0 == points[j - 1]
      p1 == points[j]
      segmentStart == segments[j - 1]
      segmentEnd == segments[j]
  IN IF segmentEnd = segmentStart THEN NaNPoint
     ELSE LET t == F64DivInt(F64SubInt(targetLength, segmentStart),
                             segmentEnd - segmentStart)
          IN Point(Lerp(p0.time, p1.time, t), Lerp(p0.x, p1.x, t),
                   Lerp(p0.y, p1.y, t))

resamplePoints(points, numPoints) ==
  IF Len(points) <= 1 THEN points
  ELSE LET segments == Segments(points, Len(points))
       IN [i \in 1..numPoints |-> ResampleAt(points, segments, i - 1, numPoints)]

----------------------------------------------------------------------------
(* processEvents: the handlers of the switch, as functions of the state    *)
(* record s, the event e and its session-relative time                     *)

\* Defective variant of flushText: no test of the buffer before the push.
flushTextUnguarded(s) ==
  [Push(s, TypeAction(IF s.textStartTime = NULL THEN NULL
                      ELSE Val(s.textStartTime), s.currentText))
     EXCEPT !.currentText = <<>>, !.textStartTime = NULL,
            !.sequenceModifiers = <<>>]

flushText(s) ==
  IF s.currentText # <<>> /\ s.textStartTime # NULL
  THEN [Push(s, TypeAction(Val(s.textStartTime), s.currentText))
          EXCEPT !.currentText = <<>>, !.textStartTime = NULL,
                 !.sequenceModifiers = <<>>]
  ELSE s

\* Defective variant of IdleFlush: flushes already at a gap of exactly
\* the threshold.
IdleFlushAtThreshold(s, time) ==
  IF s.currentText # <<>> /\ s.lastKeyTime # NULL
     /\ time - Val(s.lastKeyTime) >= IdleFlushMs
  THEN flushText(s)
  ELSE s

\* The check at the top of the loop body.
IdleFlush(s, time) ==
  IF s.currentText # <<>> /\ s.lastKeyTime # NULL
     /\ time - Val(s.lastKeyTime) > IdleFlushMs
  THEN flushText(s)
  ELSE s

OnMouseMove(s, e, time) ==
  IF e.pos # NULL
  THEN LET p == Val(e.pos)
           s1 == [s EXCEPT !.lastKnownPos = Some(p)]
       IN IF s.mouseDown
          THEN [s1 EXCEPT !.accumulatedPoints =
                  Append(@, Point(IF TruthyNum(s.mouseDownTime)
                                  THEN time - Val(s.mouseDownTime)
                                  ELSE time - time,
                                  p.x, p.y))]
          ELSE s1
  ELSE s

\* Defective variant of OnMouseDown: a mousedown of any button is recorded.
OnMouseDownAnyButton(s, e, time) ==
  LET s1 == flushText(s)
  IN IF s1.lastKnownPos # NULL
     THEN [s1 EXCEPT !.mouseDown = TRUE,
                     !.mouseDownTime = Some(time),
                     !.mouseDownPos = s1.lastKnownPos,
                     !.accumulatedPoints =
                        <<Point(0, Val(s1.lastKnownPos).x, Val(s1.lastKnownPos).y)>>]
     ELSE s1

OnMouseDown(s, e, time) ==
  LET s1 == flushText(s)
  IN IF e.button = "Left" /\ s1.lastKnownPos # NULL
     THEN [s1 EXCEPT !.mouseDown = TRUE,
                     !.mouseDownTime = Some(time),
                     !.mouseDownPos = s1.lastKnownPos,
                     !.accumulatedPoints =
                        <<Point(0, Val(s1.lastKnownPos).x, Val(s1.lastKnownPos).y)>>]
     ELSE s1

\* Defective variant of ResetPointer: only the flag is cleared.
ResetPointerFlagOnly(s) == [s EXCEPT !.mouseDown = FALSE]

ResetPointer(s) ==
  [s EXCEPT !.mouseDown = FALSE, !.mouseDownTime = NULL,
            !.mouseDownPos = NULL, !.accumulatedPoints = <<>>]

\* Defective variant of OnMouseUp: the gesture state survives the mouseup.
OnMouseUpKeepingGesture(s, e, time) ==
  IF e.button = "Left" /\ s.mouseDownPos # NULL /\ TruthyNum(s.mouseDownTime)
     /\ s.lastKnownPos # NULL
  THEN LET down == Val(s.mouseDownPos)
           last == Val(s.lastKnownPos)
           duration == time - Val(s.mouseDownTime)
           dist2 == Sqr(last.x - down.x) + Sqr(last.y - down.y)
       IN IF dist2 <= Sqr(CLICK_THRESHOLD_PX) /\ duration <= CLICK_THRESHOLD_MS
          THEN Push(s, ClickAction(Val(s.mouseDownTime), down))
          ELSE IF Len(s.accumulatedPoints) > 1
          THEN Push(s, DragAction(Val(s.mouseDownTime),
                        resamplePoints(s.accumulatedPoints, DefaultNumPoints)))
          ELSE s
  ELSE s

\* Defective variant of OnMouseUp: a gesture that is not a click is a drag,
\* however many points it has accumulated.
OnMouseUpDragAnyPath(s, e, time) ==
  IF e.button = "Left" /\ s.mouseDownPos # NULL /\ TruthyNum(s.mouseDownTime)
     /\ s.lastKnownPos # NULL
  THEN LET down == Val(s.mouseDownPos)
           last == Val(s.lastKnownPos)
           duration == time - Val(s.mouseDownTime)
           dist2 == Sqr(last.x - down.x) + Sqr(last.y - down.y)
       IN IF dist2 <= Sqr(CLICK_THRESHOLD_PX) /\ duration <= CLICK_THRESHOLD_MS
          THEN ResetPointer(Push(s, ClickAction(Val(s.mouseDownTime), down)))
          ELSE ResetPointer(Push(s, DragAction(Val(s.mouseDownTime),
                        resamplePoints(s.accumulatedPoints, DefaultNumPoints))))
  ELSE s

OnMouseUp(s, e, time) ==
  IF e.button = "Left" /\ s.mouseDownPos # NULL /\ TruthyNum(s.mouseDownTime)
     /\ s.lastKnownPos # NULL
  THEN LET down == Val(s.mouseDownPos)
           last == Val(s.lastKnownPos)
           duration == time - Val(s.mouseDownTime)
           \* Math.sqrt(d2) <= 5 exactly when d2 <= 25 for an integer d2
           dist2 == Sqr(last.x - down.x) + Sqr(last.y - down.y)
       IN IF dist2 <= Sqr(CLICK_THRESHOLD_PX) /\ duration <= CLICK_THRESHOLD_MS
          THEN ResetPointer(Push(s, ClickAction(Val(s.mouseDownTime), down)))
          ELSE IF Len(s.accumulatedPoints) > 1
          THEN ResetPointer(Push(s, DragAction(Val(s.mouseDownTime),
                        resamplePoints(s.accumulatedPoints, DefaultNumPoints))))
          ELSE ResetPointer(s)
  ELSE s

AppendChar(s, ch, time) ==
  [s EXCEPT !.textStartTime = IF ~TruthyNum(@) THEN Some(time) ELSE @,
            !.lastKeyTime = Some(time),
            !.currentText = Append(@, [ch |-> ch, at |-> time])]

\* Defective variant of TypeKey: a key that is no symbol and no letter is
\* appended as it is written, without lower-casing.
TypeKeyLiteral(s, key, time) ==
  LET hasShift == SetHas(s.activeModifiers, "Shift")
      mapped == IF hasShift /\ key \in DOMAIN shiftSymbolMap
                THEN Some(shiftSymbolMap[key])
                ELSE IF key \in DOMAIN symbolMap THEN Some(symbolMap[key])
                ELSE NULL
      anyShift == \/ SetHas(s.activeModifiers, "Shift")
                  \/ SetHas(s.activeModifiers, "ShiftLeft")
                  \/ SetHas(s.activeModifiers, "ShiftRight")
      letter == IF isWindowsLetter(key)
                THEN (IF anyShift THEN key ELSE toLowerCase[key])
                ELSE IF isMacLetter(key)
                THEN (IF anyShift THEN sliceKey[key]
                                  ELSE toLowerCase[sliceKey[key]])
                ELSE key
  IN IF mapped # NULL THEN AppendChar(s, Val(mapped), time)
     ELSE AppendChar(s, letter, time)

\* The last branch of keydown: a printable key.
TypeKey(s, key, time) ==
  LET hasShift == SetHas(s.activeModifiers, "Shift")
      mapped == IF hasShift /\ key \in DOMAIN shiftSymbolMap
                THEN Some(shiftSymbolMap[key])
                ELSE IF key \in DOMAIN symbolMap THEN Some(symbolMap[key])
                ELSE NULL
      anyShift == \/ SetHas(s.activeModifiers, "Shift")
                  \/ SetHas(s.activeModifiers, "ShiftLeft")
                  \/ SetHas(s.activeModifiers, "ShiftRight")
      letter == IF isWindowsLetter(key)
                THEN (IF anyShift THEN key ELSE toLowerCase[key])
                ELSE IF isMacLetter(key)
                THEN (IF anyShift THEN sliceKey[key]
                                  ELSE toLowerCase[sliceKey[key]])
                ELSE toLowerCase[key]
  IN IF mapped # NULL THEN AppendChar(s, Val(mapped), time)
     ELSE AppendChar(s, letter, time)

\* Defective variant of OnKeyDown: the chord branch does not clear the
\* modifier sets after emitting the Hotkey.
OnKeyDownKeepModifiers(s, e, time) ==
  IF e.key # ""
  THEN IF isComboKey(e.key)
       THEN [s EXCEPT !.activeModifiers = SetAdd(@, e.key),
                      !.sequenceModifiers = SetAdd(@, e.key)]
       ELSE IF Len(s.activeModifiers) > 0 /\ ~SetHas(s.activeModifiers, "Shift")
       THEN Push(s, HotkeyAction(time,
                       Append(s.activeModifiers, toLowerCase[e.key])))
       ELSE IF isSpecialKey(e.key)
       THEN Push(flushText(s), HotkeyAction(time, <<e.key>>))
       ELSE TypeKey(s, e.key, time)
  ELSE s

\* Defective variant of OnKeyDown: the chord branch clears the sequence set
\* and leaves the held modifiers in place until their keyup.
OnKeyDownKeepHeld(s, e, time) ==
  IF e.key # ""
  THEN IF isComboKey(e.key)
       THEN [s EXCEPT !.activeModifiers = SetAdd(@, e.key),
                      !.sequenceModifiers = SetAdd(@, e.key)]
       ELSE IF Len(s.activeModifiers) > 0 /\ ~SetHas(s.activeModifiers, "Shift")
       THEN [Push(s, HotkeyAction(time,
                       Append(s.activeModifiers, toLowerCase[e.key])))
               EXCEPT !.sequenceModifiers = <<>>]
       ELSE IF isSpecialKey(e.key)
       THEN Push(flushText(s), HotkeyAction(time, <<e.key>>))
       ELSE TypeKey(s, e.key, time)
  ELSE s

OnKeyDown(s, e, time) ==
  IF e.key # ""
  THEN IF isComboKey(e.key)
       THEN [s EXCEPT !.activeModifiers = SetAdd(@, e.key),
                      !.sequenceModifiers = SetAdd(@, e.key)]
       ELSE IF Len(s.activeModifiers) > 0 /\ ~SetHas(s.activeModifiers, "Shift")
       THEN [Push(s, HotkeyAction(time,
                       Append(s.activeModifiers, toLowerCase[e.key])))
               EXCEPT !.activeModifiers = <<>>, !.sequenceModifiers = <<>>]
       ELSE IF isSpecialKey(e.key)
       THEN Push(flushText(s), HotkeyAction(time, <<e.key>>))
       ELSE TypeKey(s, e.key, time)
  ELSE s

\* Defective variant of OnKeyUp: the released sequence is emitted even
\* while typed text is pending.
OnKeyUpIgnoringText(s, e, time) ==
  IF e.key # "" /\ isSpecialKey(e.key)
  THEN LET s1 == [s EXCEPT !.activeModifiers = SetDelete(@, e.key)]
       IN IF Len(s1.activeModifiers) = 0
          THEN LET s2 == IF Len(s1.sequenceModifiers) > 0
                         THEN Push(s1, HotkeyAction(time, s1.sequenceModifiers))
                         ELSE s1
               IN [s2 EXCEPT !.sequenceModifiers = <<>>]
          ELSE s1
  ELSE s

\* Defective variant of OnKeyUp: the sequence set is cleared only when its
\* Hotkey is emitted.
OnKeyUpKeepSequence(s, e, time) ==
  IF e.key # "" /\ isSpecialKey(e.key)
  THEN LET s1 == [s EXCEPT !.activeModifiers = SetDelete(@, e.key)]
       IN IF Len(s1.activeModifiers) = 0
             /\ Len(s1.sequenceModifiers) > 0 /\ s1.currentText = <<>>
          THEN [Push(s1, HotkeyAction(time, s1.sequenceModifiers))
                  EXCEPT !.sequenceModifiers = <<>>]
          ELSE s1
  ELSE s

OnKeyUp(s, e, time) ==
  IF e.key # "" /\ isSpecialKey(e.key)
  THEN LET s1 == [s EXCEPT !.activeModifiers = SetDelete(@, e.key)]
       IN IF Len(s1.activeModifiers) = 0
          THEN LET s2 == IF Len(s1.sequenceModifiers) > 0 /\ s1.currentText = <<>>
                         THEN Push(s1, HotkeyAction(time, s1.sequenceModifiers))
                         ELSE s1
               IN [s2 EXCEPT !.sequenceModifiers = <<>>]
          ELSE s1
  ELSE s

\* Defective variant of OnMouseWheel: the pending text is not flushed.
OnMouseWheelNoFlush(s, e, time) ==
  IF e.delta # NULL THEN Push(s, WheelAction(time, Val(e.delta))) ELSE s

\* Defective variant of OnMouseWheel: the action is pushed whether or not
\* the event carries a delta.
OnMouseWheelAnyDelta(s, e, time) ==
  Push(flushText(s), WheelAction(time, e.delta))

OnMouseWheel(s, e, time) ==
  LET s1 == flushText(s)
  IN IF e.delta # NULL THEN Push(s1, WheelAction(time, Val(e.delta))) ELSE s1

\* One iteration of `for (const event of events)`.
ProcessEvent(s, e, time) ==
  LET s1 == IdleFlush(s, time)
  IN CASE e.kind = "mousemove" -> OnMouseMove(s1, e, time)
       [] e.kind = "mousedown" -> OnMouseDown(s1, e, time)
       [] e.kind = "mouseup" -> OnMouseUp(s1, e, time)
       [] e.kind = "keydown" -> OnKeyDown(s1, e, time)
       [] e.kind = "keyup" -> OnKeyUp(s1, e, time)
       [] e.kind = "mousewheel" -> OnMouseWheel(s1, e, time)
       [] OTHER -> s1

----------------------------------------------------------------------------
(* Input events *)

Ev(kind, pos, key, button, delta) ==
  [kind |-> kind, pos |-> pos, key |-> key, button |-> button, delta |-> delta]
MouseMoveEv(x, y) == Ev("mousemove", Some([x |-> x, y |-> y]), "", "", NULL)
MouseDownEv(b) == Ev("mousedown", NULL, "", b, NULL)
MouseUpEv(b) == Ev("mouseup", NULL, "", b, NULL)
KeyDownEv(k) == Ev("keydown", NULL, k, "", NULL)
KeyUpEv(k) == Ev("keyup", NULL, k, "", NULL)
WheelEv(d) == Ev("mousewheel", NULL, "", "", Some(d))

\* Pointer positions: every pairwise distance is an integer
\* (5 between the first two, 6 between the first and the third).
P0 == [x |-> 0, y |-> 0]
P1 == [x |-> 3, y |-> 4]
P2 == [x |-> 6, y |-> 0]

\* Time between consecutive events, and the events of the pointer alphabet.
PointerSteps == {0, 500}

PointerEvents ==
  {MouseMoveEv(0, 0), MouseMoveEv(3, 4), MouseMoveEv(6, 0),
   MouseDownEv("Left"), MouseUpEv("Left"),
   KeyDownEv("A"), KeyDownEv("Return"), WheelEv(120)}

\* The keyboard alphabet: a letter, a non-Shift modifier, Shift, a special key.
\* Gaps of 500 and 501 ms add up to exactly 1000 and to 1001.
KeySteps == {500, 501}

KeyEvents ==
  {KeyDownEv("A"), KeyUpEv("A"), KeyDownEv("LeftCtrl"), KeyUpEv("LeftCtrl"),
   KeyDownEv("Shift"), KeyDownEv("Return"), KeyUpEv("Return")}

----------------------------------------------------------------------------
(* The specification *)

Install(s) ==
  /\ processedEvents' = s.processedEvents
  /\ mouseDown' = s.mouseDown
  /\ mouseDownTime' = s.mouseDownTime
  /\ mouseDownPos' = s.mouseDownPos
  /\ accumulatedPoints' = s.accumulatedPoints
  /\ activeModifiers' = s.activeModifiers
  /\ sequenceModifiers' = s.sequenceModifiers
  /\ currentText' = s.currentText
  /\ textStartTime' = s.textStartTime
  /\ lastKeyTime' = s.lastKeyTime
  /\ lastKnownPos' = s.lastKnownPos

\* Absolute time of the first event of the log.
StartTimes == {1700}

\* The state at the start of processEvents, reading a log whose first
\* event carries an absolute time of starts.
InitInvocation(starts) ==
  /\ processedEvents = <<>>
  /\ mouseDown = FALSE
  /\ mouseDownTime = NULL
  /\ mouseDownPos = NULL
  /\ accumulatedPoints = <<>>
  /\ activeModifiers = <<>>
  /\ sequenceModifiers = <<>>
  /\ currentText = <<>>
  /\ textStartTime = NULL
  /\ lastKeyTime = NULL
  /\ lastKnownPos = NULL
  /\ clock \in starts
  /\ epoch = clock
  /\ log = <<>>
  /\ pc = "loop"

InitAt(starts) ==
  /\ InitInvocation(starts)
  /\ call = NULL
  /\ other = NULL
  /\ file = NULL
  /\ session = NULL
  /\ grader = NULL
  /\ retry = NULL
  /\ loader = NULL

Init == InitAt(StartTimes)

\* Defective variant of RelTime: the time of the event as it is in the log.
AbsTime(t, t0) == t

\* const time = event.time - epoch
RelTime(t, t0) == t - t0

\* The loop reads event e, dt after the previous one; the first event is
\* read at the epoch, which is its own time.
StepWithin(e, dt, most) ==
  /\ pc = "loop"
  /\ Len(log) < most
  /\ clock' = IF log = <<>> THEN clock ELSE clock + dt
  /\ LET time == RelTime(clock', epoch)
     IN /\ Install(ProcessEvent(Cur, e, time))
        /\ log' = Append(log, [e |-> e, t |-> time, abs |-> clock',
                               pre |-> Cur])
  /\ UNCHANGED <<epoch, pc, call, restVars>>

Step(e, dt) == StepWithin(e, dt, MaxEvents)

\* Defective variant of Finish: returns without the flush after the loop.
FinishWithoutFlush ==
  /\ pc = "loop"
  /\ Install(Cur)
  /\ pc' = "returned"
  /\ UNCHANGED <<epoch, clock, log, call, restVars>>

\* Defective variant of Finish: without the test for an empty input the
\* read of events[0].time raises a TypeError.
FinishReadingEpoch ==
  /\ pc = "loop"
  /\ IF log = <<>>
     THEN Install(Cur) /\ pc' = "threw"
     ELSE Install(flushText(Cur)) /\ pc' = "returned"
  /\ UNCHANGED <<epoch, clock, log, call, restVars>>

\* The return: of a new empty array when the input is empty, and after the
\* loop and its final flush otherwise.
Finish ==
  /\ pc = "loop"
  /\ IF log = <<>>
     THEN Install([Cur EXCEPT !.processedEvents = <<>>])
     ELSE Install(flushText(Cur))
  /\ pc' = "returned"
  /\ UNCHANGED <<epoch, clock, log, call, restVars>>

\* Pointer gestures interleaved with typing, a special key and the wheel.
Next ==
  \/ \E e \in PointerEvents, dt \in PointerSteps : Step(e, dt)
  \/ Finish

Spec == Init /\ [][Next]_vars

\* Keyboard input only, with gaps on both sides of the idle threshold.
NextKeys ==
  \/ \E e \in KeyEvents, dt \in KeySteps : Step(e, dt)
  \/ Finish

SpecKeys == Init /\ [][NextKeys]_vars

\* Left and right buttons, with the pointer at rest or moved across the
\* click threshold.
ButtonEvents ==
  {MouseMoveEv(0, 0), MouseMoveEv(6, 0),
   MouseDownEv("Left"), MouseUpEv("Left"),
   MouseDownEv("Right"), MouseUpEv("Right")}

NextButtons ==
  \/ \E e \in ButtonEvents, dt \in PointerSteps : Step(e, dt)
  \/ Finish

SpecButtons == Init /\ [][NextButtons]_vars

\* Logs that start at different absolute times: a click or a hold, a
\* typed letter and the wheel.
EpochStartTimes == {0, 1700}
EpochEvents ==
  {MouseMoveEv(0, 0), MouseDownEv("Left"), MouseUpEv("Left"),
   KeyDownEv("A"), WheelEv(120)}

InitEpoch == InitAt(EpochStartTimes)

NextEpoch ==
  \/ \E e \in EpochEvents, dt \in PointerSteps : Step(e, dt)
  \/ Finish

SpecEpoch == InitEpoch /\ [][NextEpoch]_vars

\* Events that lack their expected field, among events that build up
\* pending text, a held modifier and a pointer gesture.  Two gaps of 501 ms
\* exceed the idle timeout, one does not.
MalformedEvents ==
  {Ev("mousemove", NULL, "", "", NULL), Ev("keydown", NULL, "", "", NULL),
   Ev("keyup", NULL, "", "", NULL), Ev("mousewheel", NULL, "", "", NULL)}
MalformedSteps == {0, 501}

NextMalformed ==
  \/ \E e \in MalformedEvents
             \cup {MouseMoveEv(0, 0), MouseDownEv("Left"),
                   KeyDownEv("A"), KeyDownEv("LeftCtrl")},
        dt \in MalformedSteps : Step(e, dt)
  \/ Finish

SpecMalformed == Init /\ [][NextMalformed]_vars

\* The letter A and the Shift key under the names of both vocabularies.
CaseEvents ==
  {KeyDownEv("A"), KeyDownEv("KeyA"),
   KeyDownEv("Shift"), KeyDownEv("ShiftLeft"), KeyDownEv("ShiftRight"),
   KeyUpEv("Shift"), KeyUpEv("ShiftLeft"), KeyUpEv("ShiftRight")}
CaseSteps == {100}

NextCase ==
  \/ \E e \in CaseEvents, dt \in CaseSteps : Step(e, dt)
  \/ Finish

SpecCase == Init /\ [][NextCase]_vars

\* A key id of neither vocabulary (Foo) among known keys.
UnknownKeyEvents ==
  {KeyDownEv("Foo"), KeyUpEv("Foo"), KeyDownEv("A"),
   KeyDownEv("Shift"), KeyUpEv("Shift"), KeyDownEv("Return")}
UnknownKeySteps == {500, 501}

NextUnknownKey ==
  \/ \E e \in UnknownKeyEvents, dt \in UnknownKeySteps : Step(e, dt)
  \/ Finish

SpecUnknownKey == Init /\ [][NextUnknownKey]_vars

\* Two modifiers pressed, released and pressed again around one letter key.
ModifierEvents ==
  {KeyDownEv("LeftCtrl"), KeyUpEv("LeftCtrl"),
   KeyDownEv("LeftAlt"), KeyUpEv("LeftAlt"), KeyDownEv("A")}
ModifierSteps == {100}

NextModifiers ==
  \/ \E e \in ModifierEvents, dt \in ModifierSteps :
       StepWithin(e, dt, MaxModifierEvents)
  \/ Finish

SpecModifiers == Init /\ [][NextModifiers]_vars


----------------------------------------------------------------------------
(* Two invocations of processEvents, their loop iterations interleaved *)

SessionEvents ==
  {KeyDownEv("A"), KeyDownEv("LeftCtrl"), KeyUpEv("LeftCtrl"),
   KeyDownEv("Return")}
SessionSteps == {600}
\* events[0].time of the second session's log
OtherStart == 9000

InitSessions ==
  /\ InitInvocation(StartTimes)
  /\ call = NULL
  /\ other = Some([state |-> InitState, events |-> <<>>, pc |-> "loop"])
  /\ file = NULL
  /\ session = NULL
  /\ grader = NULL
  /\ retry = NULL
  /\ loader = NULL

\* Defective variant of StepOther: the held-modifier set is one object the
\* two invocations share.
StepOtherSharedModifiers(e, dt) ==
  /\ other # NULL /\ Val(other).pc = "loop"
  /\ Len(Val(other).events) < MaxOtherEvents
  /\ LET o == Val(other)
         abs == IF o.events = <<>> THEN OtherStart
                ELSE o.events[Len(o.events)].time + dt
         t0 == IF o.events = <<>> THEN abs ELSE o.events[1].time
         post == ProcessEvent([o.state EXCEPT
                                 !.activeModifiers = activeModifiers],
                              e, RelTime(abs, t0))
     IN /\ other' = Some([o EXCEPT
                            !.state = post,
                            !.events = Append(@, [e |-> e, time |-> abs])])
        /\ activeModifiers' = post.activeModifiers
  /\ UNCHANGED <<processedEvents, mouseDown, mouseDownTime, mouseDownPos,
                 accumulatedPoints, sequenceModifiers, currentText,
                 textStartTime, lastKeyTime, lastKnownPos>>
  /\ UNCHANGED <<epoch, clock, log, pc, call, file, session, toolVars>>

\* One iteration of the second invocation's loop: it reads event e, dt after
\* its previous one, into its own locals.
StepOther(e, dt) ==
  /\ other # NULL /\ Val(other).pc = "loop"
  /\ Len(Val(other).events) < MaxOtherEvents
  /\ LET o == Val(other)
         abs == IF o.events = <<>> THEN OtherStart
                ELSE o.events[Len(o.events)].time + dt
         t0 == IF o.events = <<>> THEN abs ELSE o.events[1].time
     IN other' = Some([o EXCEPT
                         !.state = ProcessEvent(@, e, RelTime(abs, t0)),
                         !.events = Append(@, [e |-> e, time |-> abs])])
  /\ UNCHANGED <<progVars, epoch, clock, log, pc, call, file, session, toolVars>>

\* The return of the second invocation.
FinishOther ==
  /\ other # NULL /\ Val(other).pc = "loop"
  /\ LET o == Val(other)
     IN other' = Some([o EXCEPT
                         !.state = IF o.events = <<>>
                                   THEN [@ EXCEPT !.processedEvents = <<>>]
                                   ELSE flushText(@),
                         !.pc = "returned"])
  /\ UNCHANGED <<progVars, epoch, clock, log, pc, call, file, session, toolVars>>

NextSessions ==
  \/ \E e \in SessionEvents, dt \in SessionSteps : Step(e, dt)
  \/ Finish
  \/ \E e \in SessionEvents, dt \in SessionSteps : StepOther(e, dt)
  \/ FinishOther

SpecSessions == InitSessions /\ [][NextSessions]_vars


----------------------------------------------------------------------------
(* process(): the input log is read and parsed, then processEvents runs *)

\* A line of input_log.jsonl: empty, the JSON text of an event, or text that
\* is not JSON.
EmptyLine == [kind |-> "empty", e |-> Ev("", NULL, "", "", NULL)]
BadLine == [kind |-> "bad", e |-> Ev("", NULL, "", "", NULL)]
JsonLine(e) == [kind |-> "json", e |-> e]
FileLines ==
  {EmptyLine, BadLine, JsonLine(KeyDownEv("A")), JsonLine(KeyDownEv("Return")),
   JsonLine(WheelEv(1))}
\* The time field of the record on line i.
LineTime(i) == 1700 + 600 * i
Files == UNION {[1..n -> FileLines] : n \in 0..MaxFileLines}

InitProcess ==
  /\ processedEvents = <<>>
  /\ mouseDown = FALSE
  /\ mouseDownTime = NULL
  /\ mouseDownPos = NULL
  /\ accumulatedPoints = <<>>
  /\ activeModifiers = <<>>
  /\ sequenceModifiers = <<>>
  /\ currentText = <<>>
  /\ textStartTime = NULL
  /\ lastKeyTime = NULL
  /\ lastKnownPos = NULL
  /\ clock = 0
  /\ epoch = 0
  /\ log = <<>>
  /\ pc = "parse"
  /\ call = NULL
  /\ other = NULL
  /\ \E f \in Files : file = Some([lines |-> f, next |-> 1, events |-> <<>>])
  /\ session = NULL
  /\ grader = NULL
  /\ retry = NULL
  /\ loader = NULL

\* Defective variant of ParseLine: a line that is not JSON is dropped and
\* the records around it are kept.
ParseLineSkippingBad ==
  /\ file # NULL /\ pc = "parse"
  /\ LET f == Val(file)
     IN /\ f.next <= Len(f.lines)
        /\ file' = Some([f EXCEPT
                           !.next = @ + 1,
                           !.events =
                              IF f.lines[f.next].kind = "json"
                              THEN Append(@, [e |-> f.lines[f.next].e,
                                              time |-> LineTime(f.next)])
                              ELSE @])
        /\ pc' = pc
  /\ UNCHANGED <<progVars, epoch, clock, log, call, other, session, toolVars>>

\* split('\n').filter(Boolean).map(JSON.parse), one line at a time: an empty
\* line is dropped, a JSON line gives its record, and JSON.parse throws on
\* any other line.
ParseLine ==
  /\ file # NULL /\ pc = "parse"
  /\ LET f == Val(file)
     IN /\ f.next <= Len(f.lines)
        /\ file' = Some([f EXCEPT
                           !.next = @ + 1,
                           !.events =
                              IF f.lines[f.next].kind = "json"
                              THEN Append(@, [e |-> f.lines[f.next].e,
                                              time |-> LineTime(f.next)])
                              ELSE @])
        /\ pc' = IF f.lines[f.next].kind = "bad" THEN "threw" ELSE pc
  /\ UNCHANGED <<progVars, epoch, clock, log, call, other, session, toolVars>>

\* return this.processEvents(events), up to the first loop iteration.
CallProcessEvents ==
  /\ file # NULL /\ pc = "parse"
  /\ Val(file).next > Len(Val(file).lines)
  /\ pc' = "loop"
  /\ IF Val(file).events = <<>>
     THEN UNCHANGED <<epoch, clock>>
     ELSE epoch' = Val(file).events[1].time /\ clock' = epoch'
  /\ UNCHANGED <<progVars, log, call, restVars>>

\* The loop reads the next parsed record.
StepParsed ==
  /\ file # NULL
  /\ Len(log) < Len(Val(file).events)
  /\ LET r == Val(file).events[Len(log) + 1]
     IN Step(r.e, r.time - clock)

\* The return, after the last parsed record.
FinishParsed ==
  /\ file # NULL
  /\ Len(log) = Len(Val(file).events)
  /\ Finish

NextProcess ==
  \/ ParseLine
  \/ CallProcessEvents
  \/ StepParsed
  \/ FinishParsed

SpecProcess == InitProcess /\ [][NextProcess]_vars


----------------------------------------------------------------------------
(* Grading mode: index.ts for one session, and the score Grader.grade returns *)

\* Characters of the text the evaluator puts between the answer tags; the
\* text is trimmed and not empty.
AnswerChars == {"0", "1", "9", "-", ".", "x"}
Answers == UNION {[1..n -> AnswerChars] : n \in 1..MaxAnswerLen}
DigitValue == [c \in {"0", "1", "9"} |-> IF c = "0" THEN 0
                                         ELSE IF c = "1" THEN 1 ELSE 9]
NaN == [nan |-> TRUE, v |-> 0]
Num(v) == [nan |-> FALSE, v |-> v]

\* The number of leading characters of d that are digits.
DigitPrefix(d) ==
  CHOOSE n \in 0..Len(d) :
    /\ \A i \in 1..n : d[i] \in DOMAIN DigitValue
    /\ n = Len(d) \/ d[n + 1] \notin DOMAIN DigitValue
RECURSIVE DigitsValue(_, _, _)
DigitsValue(d, n, radix) ==
  IF n = 0 THEN 0 ELSE DigitsValue(d, n - 1, radix) * radix + DigitValue[d[n]]

\* parseInt(text) without a radix: an optional sign, an optional 0x prefix
\* that selects base 16, then the longest prefix of digits; NaN when there
\* is no digit.
parseInt(text) ==
  LET negative == text[1] = "-"
      body == IF negative THEN Tail(text) ELSE text
      hex == Len(body) >= 2 /\ body[1] = "0" /\ body[2] = "x"
      digits == IF hex THEN SubSeq(body, 3, Len(body)) ELSE body
      radix == IF hex THEN 16 ELSE 10
      n == DigitPrefix(digits)
      v == DigitsValue(digits, n, radix)
  IN IF n = 0 THEN NaN ELSE Num(IF negative THEN 0 - v ELSE v)

\* score: parseInt(score)
ScoreOf(text) == parseInt(text)

\* What grade returns: null, or the result of the final chunk.
GradeResult(answer) ==
  IF answer = NULL THEN NULL ELSE Some([score |-> ScoreOf(Val(answer))])

\* JSON.stringify(result): NaN is written as null.
Stringify(result) ==
  [score |-> IF result.score.nan THEN NULL ELSE Some(result.score.v)]

InitGrading ==
  /\ processedEvents = <<>>
  /\ mouseDown = FALSE
  /\ mouseDownTime = NULL
  /\ mouseDownPos = NULL
  /\ accumulatedPoints = <<>>
  /\ activeModifiers = <<>>
  /\ sequenceModifiers = <<>>
  /\ currentText = <<>>
  /\ textStartTime = NULL
  /\ lastKeyTime = NULL
  /\ lastKnownPos = NULL
  /\ clock = 0
  /\ epoch = 0
  /\ log = <<>>
  /\ pc = "session"
  /\ call = NULL
  /\ other = NULL
  /\ file = NULL
  /\ \E sft \in {"absent", "unreadable", "readable"},
        answer \in {NULL} \cup {Some(a) : a \in Answers},
        pipelineOk \in BOOLEAN, scoresWritable \in BOOLEAN :
       session = Some([sft |-> sft, sftAtStart |-> sft, answer |-> answer,
                       pipelineOk |-> pipelineOk,
                       scoresWritable |-> scoresWritable,
                       at |-> "readSft", inTry |-> TRUE,
                       result |-> NULL, scores |-> NULL, trace |-> <<>>])
  /\ grader = NULL
  /\ retry = NULL
  /\ loader = NULL

Session == Val(session)
SessionStep(at) == session # NULL /\ pc = "session" /\ Session.at = at
SessionFrame ==
  UNCHANGED <<progVars, epoch, clock, log, pc, call, other, file, toolVars>>

\* try { await Bun.file(sftPath).json(); ... } catch (error) { ... }
ReadSft ==
  /\ SessionStep("readSft")
  /\ session' = Some([Session EXCEPT
                        !.at = IF Session.sft = "readable" THEN "grade"
                               ELSE "pipeline",
                        !.inTry = Session.sft = "readable",
                        !.trace = Append(@, "readSft")])
  /\ SessionFrame

\* const results = await pipeline.process(session), and the two result files
RunPipeline ==
  /\ SessionStep("pipeline")
  /\ session' = Some([Session EXCEPT
                        !.at = IF Session.pipelineOk THEN "writeSft"
                               ELSE "crashed",
                        !.inTry = FALSE,
                        !.trace = Append(@, "pipeline")])
  /\ SessionFrame

\* formatter.process(results) and the write of sft.html and sft.json
WriteSft ==
  /\ SessionStep("writeSft")
  /\ session' = Some([Session EXCEPT
                        !.sft = "readable",
                        !.at = "grade",
                        !.trace = Append(@, "writeSft")])
  /\ SessionFrame

\* const result = await grader.grade(metaPath, sftPath); if (result) ...
Grade ==
  /\ SessionStep("grade")
  /\ LET result == GradeResult(Session.answer)
     IN session' = Some([Session EXCEPT
                           !.result = result,
                           !.at = IF result = NULL THEN "done"
                                  ELSE "writeScores",
                           !.trace = Append(@, "grade")])
  /\ SessionFrame

\* await Bun.write(path.join(outDir, session, 'scores.json'), ...): a write
\* that throws inside the try block is caught by the catch that runs the
\* pipeline; one that throws inside the catch ends the program.
WriteScores ==
  /\ SessionStep("writeScores")
  /\ session' = Some([Session EXCEPT
                        !.scores = IF Session.scoresWritable
                                   THEN Some(Stringify(Val(Session.result)))
                                   ELSE @,
                        !.at = IF Session.scoresWritable THEN "done"
                               ELSE IF Session.inTry THEN "pipeline"
                               ELSE "crashed",
                        !.trace = Append(@, "writeScores")])
  /\ SessionFrame

NextGrading ==
  \/ ReadSft
  \/ RunPipeline
  \/ WriteSft
  \/ Grade
  \/ WriteScores

SpecGrading == InitGrading /\ [][NextGrading]_vars


----------------------------------------------------------------------------
(* Grader.chunkMessages called on its own *)

\* The locals every specification of the extractor starts from, at rest.
IdleExtractor ==
  /\ processedEvents = <<>>
  /\ mouseDown = FALSE
  /\ mouseDownTime = NULL
  /\ mouseDownPos = NULL
  /\ accumulatedPoints = <<>>
  /\ activeModifiers = <<>>
  /\ sequenceModifiers = <<>>
  /\ currentText = <<>>
  /\ textStartTime = NULL
  /\ lastKeyTime = NULL
  /\ lastKnownPos = NULL
  /\ clock = 0
  /\ epoch = 0
  /\ log = <<>>
  /\ call = NULL
  /\ other = NULL
  /\ file = NULL
  /\ session = NULL
ExtractorFrame ==
  UNCHANGED <<progVars, epoch, clock, log, call, other, file, session>>

\* The messages of an sft.json, told apart by their position in the file.
MessageLists == {[k \in 1..n |-> k] : n \in 0..MaxMessages}
ChunkSizes == 1..MaxChunkSize

\* messages.slice(from, to) with 0-based bounds
Slice(messages, from, to) ==
  SubSeq(messages, from + 1, IF to < Len(messages) THEN to ELSE Len(messages))

InitChunk ==
  /\ IdleExtractor
  /\ pc = "chunk"
  /\ \E m \in MessageLists, c \in ChunkSizes :
       grader = Some([messages |-> m, chunkSize |-> c, chunks |-> <<>>, i |-> 0])
  /\ retry = NULL
  /\ loader = NULL

Chunking == Val(grader)

\* Defective variant of ChunkStep: the slice keeps one message more than the
\* chunk size.
ChunkStepOverlapping ==
  /\ grader # NULL /\ pc = "chunk"
  /\ Chunking.i < Len(Chunking.messages)
  /\ grader' = Some([Chunking EXCEPT
                       !.chunks = Append(@, Slice(Chunking.messages, Chunking.i,
                                                  Chunking.i + Chunking.chunkSize + 1)),
                       !.i = @ + Chunking.chunkSize])
  /\ pc' = pc
  /\ UNCHANGED <<retry, loader>>
  /\ ExtractorFrame

\* One iteration: chunks.push(messages.slice(i, i + chunkSize)); i += chunkSize
ChunkStep ==
  /\ grader # NULL /\ pc = "chunk"
  /\ Chunking.i < Len(Chunking.messages)
  /\ grader' = Some([Chunking EXCEPT
                       !.chunks = Append(@, Slice(Chunking.messages, Chunking.i,
                                                  Chunking.i + Chunking.chunkSize)),
                       !.i = @ + Chunking.chunkSize])
  /\ pc' = pc
  /\ UNCHANGED <<retry, loader>>
  /\ ExtractorFrame

\* The loop test fails: return chunks
ChunkReturn ==
  /\ grader # NULL /\ pc = "chunk"
  /\ ~(Chunking.i < Len(Chunking.messages))
  /\ pc' = "chunked"
  /\ UNCHANGED <<grader, retry, loader>>
  /\ ExtractorFrame

NextChunk ==
  \/ ChunkStep
  \/ ChunkReturn

\* The loop is straight-line code: it takes its next step whenever it has one.
SpecChunk == InitChunk /\ [][NextChunk]_vars /\ WF_vars(NextChunk)


----------------------------------------------------------------------------
(* Grader.grade: the loop over the chunks *)

\* What evaluateChunk returns: null when the request failed, or a response
\* in which each of the three tags is present (with text) or not.
Responses ==
  {NULL} \cup {Some([summary |-> a, answer |-> b, reasoning |-> c]) :
                 a \in BOOLEAN, b \in BOOLEAN, c \in BOOLEAN}
\* The response has the tags the chunk needs.
Parseable(r, isFinal) ==
  /\ r # NULL
  /\ Val(r).summary
  /\ isFinal => Val(r).answer /\ Val(r).reasoning

InitGradeLoop ==
  /\ IdleExtractor
  /\ pc = "grade"
  /\ \E n \in 0..MaxChunks, readable \in BOOLEAN :
       grader = Some([totalChunks |-> n, readable |-> readable, at |-> "read",
                      i |-> 0, prevSummary |-> NULL, lastParsed |-> NULL,
                      response |-> NULL, result |-> NULL])
  /\ retry = NULL
  /\ loader = NULL

Grading == Val(grader)
GradeAt(at) == grader # NULL /\ pc = "grade" /\ Grading.at = at
IsFinal == Grading.i = Grading.totalChunks - 1
GradeFrame == UNCHANGED <<retry, loader>> /\ ExtractorFrame
\* return null, or return the result of the final chunk
GradeReturns(g, result) ==
  /\ grader' = Some([g EXCEPT !.at = "returned", !.result = result])
  /\ pc' = "graded"

\* The two input files are read and the messages are chunked; a failure is
\* caught by the catch clause of grade.
ReadInputs ==
  /\ GradeAt("read")
  /\ IF Grading.readable
     THEN grader' = Some([Grading EXCEPT !.at = "loop"]) /\ pc' = pc
     ELSE GradeReturns(Grading, NULL)
  /\ GradeFrame

\* i < chunks.length fails: return null
LoopExit ==
  /\ GradeAt("loop")
  /\ ~(Grading.i < Grading.totalChunks)
  /\ GradeReturns(Grading, NULL)
  /\ GradeFrame

\* createSystemPrompt(meta, prevSummary, isFinal) and evaluateChunk: the
\* request is sent and r comes back.
Receive(r) ==
  /\ GradeAt("loop")
  /\ Grading.i < Grading.totalChunks
  /\ grader' = Some([Grading EXCEPT !.at = "response", !.response = r])
  /\ pc' = pc
  /\ GradeFrame

ReceiveParseable == \E r \in Responses : Parseable(r, IsFinal) /\ Receive(r)
ReceiveOther == \E r \in Responses : ~Parseable(r, IsFinal) /\ Receive(r)

\* Defective variant of Handle: a response without its tags is given up and
\* the loop goes on to the next chunk.
HandleWithoutRetry ==
  /\ GradeAt("response")
  /\ LET g == Grading
         r == g.response
         next == [g EXCEPT !.at = "loop", !.i = @ + 1, !.response = NULL]
     IN IF r = NULL
        THEN grader' = Some(next) /\ pc' = pc
        ELSE IF IsFinal
        THEN IF Parseable(r, TRUE)
             THEN GradeReturns([g EXCEPT !.response = NULL],
                               Some([chunk |-> g.i]))
             ELSE grader' = Some(next) /\ pc' = pc
        ELSE /\ grader' =
                  Some([next EXCEPT
                          !.prevSummary = IF Val(r).summary THEN Some(g.i)
                                          ELSE NULL,
                          !.lastParsed = IF Val(r).summary THEN Some(g.i)
                                         ELSE @])
             /\ pc' = pc
  /\ GradeFrame

\* The rest of the loop body: a failed request goes on to the next chunk, a
\* response without its tags evaluates the same chunk again (i--, then
\* i++), the final chunk returns, and another chunk keeps its summary.
Handle ==
  /\ GradeAt("response")
  /\ LET g == Grading
         r == g.response
         next == [g EXCEPT !.at = "loop", !.i = @ + 1, !.response = NULL]
         again == [g EXCEPT !.at = "loop", !.response = NULL]
     IN IF r = NULL
        THEN grader' = Some(next) /\ pc' = pc
        ELSE IF IsFinal
        THEN IF Parseable(r, TRUE)
             THEN GradeReturns([g EXCEPT !.response = NULL],
                               Some([chunk |-> g.i]))
             ELSE grader' = Some(again) /\ pc' = pc
        ELSE /\ grader' =
                  Some([(IF Val(r).summary THEN next ELSE again) EXCEPT
                          !.prevSummary = IF Val(r).summary THEN Some(g.i)
                                          ELSE NULL,
                          !.lastParsed = IF Val(r).summary THEN Some(g.i)
                                         ELSE @])
             /\ pc' = pc
  /\ GradeFrame

NextGradeLoop ==
  \/ ReadInputs
  \/ LoopExit
  \/ ReceiveParseable
  \/ ReceiveOther
  \/ Handle

\* Every request returns and the code takes its next step; each chunk
\* eventually gets a response with its tags.
SpecGradeLoop ==
  /\ InitGradeLoop /\ [][NextGradeLoop]_vars
  /\ WF_vars(NextGradeLoop)
  /\ SF_vars(ReceiveParseable)


----------------------------------------------------------------------------
(* withRetry(fn, retries, delay) *)

\* The delay argument: none, and the default of one second.
Delays == {0, 1000}

InitRetry ==
  /\ IdleExtractor
  /\ pc = "retry"
  /\ grader = NULL
  /\ \E n \in 0..MaxRetries, d \in Delays :
       retry = Some([retries |-> n, delay |-> d, i |-> 0, at |-> "test",
                     outcomes |-> <<>>, trace |-> <<>>, result |-> NULL,
                     error |-> NULL])
  /\ loader = NULL

Retrying == Val(retry)
RetryAt(at) == retry # NULL /\ pc = "retry" /\ Retrying.at = at
RetryFrame == UNCHANGED <<grader, loader>> /\ ExtractorFrame
\* The number of invocations of fn so far.
Calls == Len(Retrying.outcomes)

\* i < retries: fn is invoked; otherwise the function ends without a value.
LoopTest ==
  /\ RetryAt("test")
  /\ IF Retrying.i < Retrying.retries
     THEN /\ retry' = Some([Retrying EXCEPT
                              !.at = "calling",
                              !.trace = Append(@, [op |-> "call", ms |-> 0])])
          /\ pc' = pc
     ELSE /\ retry' = Some([Retrying EXCEPT !.at = "returned",
                                            !.result = Some("undefined")])
          /\ pc' = "retried"
  /\ RetryFrame

\* return await fn(): the promise fulfils with the value of this invocation.
FnFulfils ==
  /\ RetryAt("calling")
  /\ retry' = Some([Retrying EXCEPT
                      !.at = "returned",
                      !.outcomes = Append(@, "fulfilled"),
                      !.result = Some([value |-> Calls + 1])])
  /\ pc' = "retried"
  /\ RetryFrame

\* await fn() rejects: control enters the catch clause with its error.
FnRejects ==
  /\ RetryAt("calling")
  /\ retry' = Some([Retrying EXCEPT
                      !.at = "caught",
                      !.outcomes = Append(@, "rejected"),
                      !.error = Some(Calls + 1)])
  /\ pc' = pc
  /\ RetryFrame

\* Defective variant of Catch: the test for the last attempt is off by one,
\* so the last error is swallowed.
CatchOffByOne ==
  /\ RetryAt("caught")
  /\ retry' = Some([Retrying EXCEPT
                      !.at = "waiting",
                      !.trace = Append(@, [op |-> "wait", ms |-> Retrying.delay])])
  /\ pc' = pc
  /\ RetryFrame

\* if (i === retries - 1) throw e; otherwise the timer of `delay` is set.
Catch ==
  /\ RetryAt("caught")
  /\ IF Retrying.i = Retrying.retries - 1
     THEN retry' = Some([Retrying EXCEPT !.at = "threw"]) /\ pc' = "retried"
     ELSE /\ retry' = Some([Retrying EXCEPT
                              !.at = "waiting",
                              !.trace = Append(@, [op |-> "wait",
                                                   ms |-> Retrying.delay])])
          /\ pc' = pc
  /\ RetryFrame

\* The timer fires: i++ and back to the loop test.
TimerFires ==
  /\ RetryAt("waiting")
  /\ retry' = Some([Retrying EXCEPT !.at = "test", !.i = @ + 1])
  /\ pc' = pc
  /\ RetryFrame

NextRetry ==
  \/ LoopTest
  \/ FnFulfils
  \/ FnRejects
  \/ Catch
  \/ TimerFires

SpecRetry == InitRetry /\ [][NextRetry]_vars


----------------------------------------------------------------------------
(* The downloader: processBatch and the batch loop *)

batchSize == 5
\* The default `retries` of withRetry, used for get_events.
DefaultRetries == 3

\* ids are 1..n, in the order of the session list; tries[id] is the number
\* of the get_events attempt in progress, 0 outside withRetry.
InitLoader ==
  /\ IdleExtractor
  /\ pc = "load"
  /\ grader = NULL
  /\ retry = NULL
  /\ \E n \in 0..MaxIds :
       loader = Some([n |-> n, i |-> 0, at |-> "loop",
                      stage |-> [id \in 1..n |-> "listed"],
                      tries |-> [id \in 1..n |-> 0],
                      starts |-> [id \in 1..n |-> 0]])

Loading == Val(loader)
LoaderAt(at) == loader # NULL /\ pc = "load" /\ Loading.at = at
LoaderFrame == UNCHANGED <<grader, retry>> /\ ExtractorFrame
\* ids.slice(i, i + batchSize)
Batch == {id \in 1..Loading.n : Loading.i < id /\ id <= Loading.i + batchSize}
Settled(id) == Loading.stage[id] \in {"done", "failed"}
InStage(id, stage) == LoaderAt("batch") /\ id \in Batch /\ Loading.stage[id] = stage
Move(id, stage) ==
  /\ loader' = Some([Loading EXCEPT !.stage[id] = stage])
  /\ pc' = pc
  /\ LoaderFrame

\* The loop test fails: the program is finished.
LoopEnd ==
  /\ LoaderAt("loop")
  /\ Loading.i >= Loading.n
  /\ loader' = Some([Loading EXCEPT !.at = "done"])
  /\ pc' = "loaded"
  /\ LoaderFrame

\* batch.map(async ...): every id of the slice starts with its first
\* get_events call.
StartBatch ==
  /\ LoaderAt("loop")
  /\ Loading.i < Loading.n
  /\ loader' = Some([Loading EXCEPT
       !.at = "batch",
       !.stage = [id \in 1..Loading.n |-> IF id \in Batch THEN "events" ELSE @[id]],
       !.tries = [id \in 1..Loading.n |-> IF id \in Batch THEN 1 ELSE @[id]],
       !.starts = [id \in 1..Loading.n |-> IF id \in Batch THEN @[id] + 1 ELSE @[id]]])
  /\ pc' = pc
  /\ LoaderFrame

\* get_events fulfils: withRetry returns and downloadGuar is called.
EventsFetched(id) ==
  /\ InStage(id, "events")
  /\ loader' = Some([Loading EXCEPT !.stage[id] = "guac", !.tries[id] = 0])
  /\ pc' = pc
  /\ LoaderFrame

\* get_events rejects: withRetry calls it again, or rethrows after the last
\* attempt and the catch clause of the id logs the failure.
EventsFailed(id) ==
  /\ InStage(id, "events")
  /\ IF Loading.tries[id] = DefaultRetries
     THEN loader' = Some([Loading EXCEPT !.stage[id] = "failed", !.tries[id] = 0])
     ELSE loader' = Some([Loading EXCEPT !.tries[id] = @ + 1])
  /\ pc' = pc
  /\ LoaderFrame

\* downloadGuar resolves true: encodeVideo is called.
GuacDownloaded(id) == InStage(id, "guac") /\ Move(id, "encode")

\* downloadGuar resolves false (403, access denied, network error): nothing
\* to encode.
GuacUnavailable(id) == InStage(id, "guac") /\ Move(id, "done")

\* The output exists or guacenc exits with 0.
Encoded(id) == InStage(id, "encode") /\ Move(id, "done")

\* guacenc exits with another code: reject(code), caught for this id.
EncodeFailed(id) == InStage(id, "encode") /\ Move(id, "failed")

\* Bun.spawn throws inside the async executor: the promise returned by
\* encodeVideo is never settled and the executor's rejection is unhandled,
\* which either is only reported or ends the process.
SpawnThrows(id) ==
  /\ InStage(id, "encode")
  /\ \/ loader' = Some([Loading EXCEPT !.stage[id] = "pending"])
     \/ loader' = Some([Loading EXCEPT !.stage[id] = "pending", !.at = "exited"])
  /\ pc' = pc
  /\ LoaderFrame

\* Promise.all fulfils: i += batchSize.
BatchSettles ==
  /\ LoaderAt("batch")
  /\ \A id \in Batch : Settled(id)
  /\ loader' = Some([Loading EXCEPT !.at = "loop", !.i = @ + batchSize])
  /\ pc' = pc
  /\ LoaderFrame

NextLoader ==
  \/ LoopEnd
  \/ StartBatch
  \/ BatchSettles
  \/ \E id \in 1..MaxIds :
       \/ EventsFetched(id)
       \/ EventsFailed(id)
       \/ GuacDownloaded(id)
       \/ GuacUnavailable(id)
       \/ Encoded(id)
       \/ EncodeFailed(id)
       \/ SpawnThrows(id)

\* Every request and every child process ends at some time.
SpecLoader == InitLoader /\ [][NextLoader]_vars /\ WF_vars(NextLoader)

----------------------------------------------------------------------------
(* resamplePoints called on its own *)

\* Time between the points of a path.
PathStepMs == 100

\* The paths of 2..MaxPathLen points over the positions of the model,
\* repeated positions included.
Positions == {P0, P1, P2}
PathOver(ps) == [k \in 1..Len(ps) |-> Point(PathStepMs * (k - 1), ps[k].x, ps[k].y)]
PositionPaths ==
  UNION {{PathOver(ps) : ps \in [1..n -> Positions]} : n \in 2..MaxPathLen}

\* n points on a horizontal line, d apart.
LineSpacings == {1, 5, 9}
LinePath(n, d) == [k \in 1..n |-> Point(PathStepMs * (k - 1), d * (k - 1), 0)]

ResampleCounts == {2, 3, DefaultNumPoints}

CallArgs ==
  {[points |-> p, numPoints |-> n] : p \in PositionPaths, n \in ResampleCounts}
  \cup {[points |-> LinePath(n, d), numPoints |-> n] :
          n \in 2..MaxLineLen, d \in LineSpacings}

InitResample ==
  /\ processedEvents = <<>>
  /\ mouseDown = FALSE
  /\ mouseDownTime = NULL
  /\ mouseDownPos = NULL
  /\ accumulatedPoints = <<>>
  /\ activeModifiers = <<>>
  /\ sequenceModifiers = <<>>
  /\ currentText = <<>>
  /\ textStartTime = NULL
  /\ lastKeyTime = NULL
  /\ lastKnownPos = NULL
  /\ clock = 0
  /\ epoch = 0
  /\ log = <<>>
  /\ pc = "resample"
  /\ \E a \in CallArgs :
       call = Some([points |-> a.points, numPoints |-> a.numPoints,
                    resampled |-> NULL])
  /\ other = NULL
  /\ file = NULL
  /\ session = NULL
  /\ grader = NULL
  /\ retry = NULL
  /\ loader = NULL

Resample ==
  /\ pc = "resample"
  /\ call' = Some([Val(call) EXCEPT
                     !.resampled = Some(resamplePoints(Val(call).points,
                                                       Val(call).numPoints))])
  /\ pc' = "resampled"
  /\ UNCHANGED <<progVars, epoch, clock, log, restVars>>

NextResample == Resample

SpecResample == InitResample /\ [][NextResample]_vars

----------------------------------------------------------------------------
(* Vocabulary of the properties: the event just consumed and what it did *)

\* The loop has just consumed an event (the final flush has not run).
JustProcessed == pc = "loop" /\ log # <<>>
LastEntry == log[Len(log)]
LastEv == LastEntry.e
LastTime == LastEntry.t
Pre == LastEntry.pre
\* The actions the last event appended to the output.
Emitted ==
  SubSeq(processedEvents, Len(Pre.processedEvents) + 1, Len(processedEvents))
\* The text of a string of typed characters, without the history tags.
Chars(text) == [i \in 1..Len(text) |-> text[i].ch]
Dist2(p, q) == Sqr(q.x - p.x) + Sqr(q.y - p.y)

----------------------------------------------------------------------------
(* Ordering of the output *)

\* C1: the timestamps of the returned actions are non-decreasing in output
\* order, for every input whose event times are non-decreasing (all inputs
\* of the model are), keyboard, wheel and pointer events interleaved.
C1_TimestampsNonDecreasing ==
  \A i \in 1..(Len(processedEvents) - 1) :
    processedEvents[i].timestamp <= processedEvents[i + 1].timestamp

----------------------------------------------------------------------------
(* Pointer gestures *)

IsLeftUp(e) == e.kind = "mouseup" /\ e.button = "Left"
IsLeftDown(e) == e.kind = "mousedown" /\ e.button = "Left"
IsMove(e) == e.kind = "mousemove" /\ e.pos # NULL

\* C2: a left mousedown at a known pointer position p, directly followed by
\* a left mouseup at the same position at most 500 ms later, makes the
\* mouseup append exactly one Click carrying p and the session-relative time
\* of the mousedown, also when that time is 0.
C2_ClickOnDownUp ==
  (JustProcessed /\ Len(log) >= 2 /\ IsLeftUp(LastEv)
     /\ IsLeftDown(log[Len(log) - 1].e)
     /\ log[Len(log) - 1].pre.lastKnownPos # NULL
     /\ LastTime - log[Len(log) - 1].t <= 500)
  => Emitted = <<ClickAction(log[Len(log) - 1].t,
                             Val(log[Len(log) - 1].pre.lastKnownPos))>>

\* C3: with a left mousedown recorded at position p and time d, the next
\* left mouseup at time u with last known position q appends Click{p, d} if
\* |q-p| <= 5 and u-d <= 500, otherwise one Drag timestamped d if at least 2
\* points were accumulated, otherwise nothing.
C3_ClickDragBoundary ==
  (JustProcessed /\ IsLeftUp(LastEv) /\ Pre.mouseDown)
  => LET p == Val(Pre.mouseDownPos)
         d == Val(Pre.mouseDownTime)
         q == Val(Pre.lastKnownPos)
     IN IF Dist2(p, q) <= 25 /\ LastTime - d <= 500
        THEN Emitted = <<ClickAction(d, p)>>
        ELSE IF Len(Pre.accumulatedPoints) >= 2
        THEN /\ Len(Emitted) = 1
             /\ Emitted[1].type = "mousedrag"
             /\ Emitted[1].timestamp = d
        ELSE Emitted = <<>>

\* The gesture that ends at the last event: a left mousedown at event m with
\* a known position, then only mousemoves (at least one), then the left
\* mouseup just processed.
DragGestureFrom(m) ==
  /\ JustProcessed /\ IsLeftUp(LastEv)
  /\ m \in 1..(Len(log) - 2)
  /\ IsLeftDown(log[m].e) /\ log[m].pre.lastKnownPos # NULL
  /\ \A k \in (m + 1)..(Len(log) - 1) : IsMove(log[k].e)

\* C4: a left mousedown at p, then mousemoves that end more than 5 px away
\* at q, then a left mouseup, yield exactly one Drag, timestamped with the
\* session-relative time of the mousedown (0 included), with 8 resampled
\* points, the first at p and the last at q.
C4_DragOnDownMoveUp ==
  \A m \in 1..Len(log) :
    LET p == Val(log[m].pre.lastKnownPos)
        q == Val(log[Len(log) - 1].e.pos)
    IN (DragGestureFrom(m) /\ Dist2(p, q) > 25)
       => /\ Len(Emitted) = 1
          /\ Emitted[1].type = "mousedrag"
          /\ Emitted[1].timestamp = log[m].t
          /\ LET pts == Emitted[1].data.coordinates
             IN /\ Len(pts) = 8
                /\ ~pts[1].nan /\ pts[1].x = p.x /\ pts[1].y = p.y
                /\ ~pts[8].nan /\ pts[8].x = q.x /\ pts[8].y = q.y

----------------------------------------------------------------------------
(* Typed text *)

\* C5: the timestamp of every Type action is the session-relative time of
\* the keydown that appended the first character of its text.
C5_TypeTimestampIsFirstKey ==
  \A i \in 1..Len(processedEvents) :
    processedEvents[i].type = "type"
    => processedEvents[i].timestamp = processedEvents[i].data.text[1].at

\* The time of the last keystroke buffered before the last event.
LastBufferedAt == Pre.currentText[Len(Pre.currentText)].at
\* The last event is a keydown of the letter A that is typed: no modifier
\* is held, or Shift alone.
TypedLetter ==
  LastEv = KeyDownEv("A") /\ Pre.activeModifiers \in {<<>>, <<"Shift">>}
TypedChar ==
  [ch |-> IF Pre.activeModifiers = <<>> THEN "a" ELSE "A", at |-> LastTime]

\* C6: when text is pending and an event arrives more than 1000 ms after
\* the last buffered keystroke, the whole pending text is emitted as a single
\* Type action ahead of anything that event emits, and a printable key of
\* that event starts a new buffer; at a gap of at most 1000 ms (exactly 1000
\* included) a typed letter joins the pending text and nothing is flushed.
C6_IdleFlush ==
  (JustProcessed /\ Pre.currentText # <<>>)
  => /\ LastTime - LastBufferedAt > 1000
          => /\ Emitted # <<>>
             /\ Emitted[1].type = "type"
             /\ Emitted[1].data.text = Pre.currentText
             /\ \A i \in 2..Len(Emitted) : Emitted[i].type # "type"
             /\ \A i \in 1..Len(currentText) : currentText[i].at = LastTime
             /\ TypedLetter => currentText = <<TypedChar>>
     /\ (LastTime - LastBufferedAt <= 1000 /\ TypedLetter)
          => /\ Emitted = <<>>
             /\ currentText = Append(Pre.currentText, TypedChar)

\* An idle flush ahead of a Hotkey: text was pending, a special key arrives
\* more than 1000 ms after the last keystroke.
C6_Witness ==
  /\ JustProcessed /\ Pre.currentText # <<>>
  /\ LastTime - LastBufferedAt > 1000
  /\ LastEv = KeyDownEv("Return")
  /\ Len(Emitted) = 2 /\ Emitted[1].type = "type" /\ Emitted[2].type = "hotkey"

----------------------------------------------------------------------------
(* Hotkeys *)

\* The hotkeys among the actions at positions lo+1 .. hi of the output.
HotkeysBetween(lo, hi) ==
  {i \in (lo + 1)..hi : processedEvents[i].type = "hotkey"}

\* The last four events are keydown M, keydown K, keyup K, keyup M, with
\* M = LeftCtrl and no modifier held before.
ChordSequence(K) ==
  /\ pc = "loop" /\ Len(log) >= 4
  /\ log[Len(log) - 3].e = KeyDownEv("LeftCtrl")
  /\ log[Len(log) - 3].pre.activeModifiers = <<>>
  /\ log[Len(log) - 2].e = KeyDownEv(K)
  /\ log[Len(log) - 1].e = KeyUpEv(K)
  /\ log[Len(log)].e = KeyUpEv("LeftCtrl")

\* C7: the sequence keydown M, keydown K, keyup K, keyup M (M a non-Shift
\* modifier, K a non-modifier key, no other modifier held) emits exactly one
\* Hotkey, at keydown K and timestamped with its time; no keyup emits one.
C7_ChordOnce ==
  \A K \in {"A", "Return"} :
    ChordSequence(K)
    => LET n == Len(log)
           hk == HotkeysBetween(Len(log[n - 3].pre.processedEvents),
                                Len(processedEvents))
       IN /\ Cardinality(hk) = 1
          /\ \A i \in hk :
               /\ processedEvents[i] =
                    HotkeyAction(log[n - 2].t, <<"LeftCtrl", toLowerCase[K]>>)
               /\ i > Len(log[n - 2].pre.processedEvents)
               /\ i <= Len(log[n - 1].pre.processedEvents)

C7_Witness ==
  /\ ChordSequence("Return")
  /\ processedEvents = <<HotkeyAction(log[2].t, <<"LeftCtrl", "return">>)>>

\* C8: a keydown of a non-modifier key while the held modifiers are
\* non-empty and not exactly {Shift} emits, at the current time, a Hotkey
\* whose combo is the held modifiers joined with the lowercased key; this
\* includes Shift held together with another modifier.
C8_ChordWithShift ==
  (JustProcessed /\ LastEv.kind = "keydown" /\ LastEv.key \in {"A", "Return"}
     /\ Pre.activeModifiers # <<>> /\ Pre.activeModifiers # <<"Shift">>)
  => /\ Emitted # <<>>
     /\ Emitted[Len(Emitted)] =
          HotkeyAction(LastTime,
                       Append(Pre.activeModifiers, toLowerCase[LastEv.key]))

----------------------------------------------------------------------------
(* Flushing of the pending text *)

\* The text pending before the last event is the first action it emitted.
PendingFlushedFirst ==
  Pre.currentText # <<>>
  => /\ Emitted # <<>>
     /\ Emitted[1].type = "type"
     /\ Emitted[1].data.text = Pre.currentText

\* C9: after any mousedown, mouseup or mousewheel event the text buffer is
\* empty, and text buffered before the event is emitted as a Type action
\* ahead of any action of the event itself.
C9_PointerEventsFlush ==
  (JustProcessed /\ LastEv.kind \in {"mousedown", "mouseup", "mousewheel"})
  => currentText = <<>> /\ PendingFlushedFirst

\* C9 as amended: a mousedown or mousewheel event leaves the buffer empty
\* and emits the pending text first; a mouseup does not flush: unless the
\* idle timeout has passed, it leaves the pending text in the buffer and
\* emits no Type action.
C9_DownAndWheelFlush ==
  /\ (JustProcessed /\ LastEv.kind \in {"mousedown", "mousewheel"})
     => currentText = <<>> /\ PendingFlushedFirst
  /\ (JustProcessed /\ LastEv.kind = "mouseup" /\ Pre.currentText # <<>>
        /\ LastTime - LastBufferedAt <= 1000)
     => /\ currentText = Pre.currentText
        /\ \A i \in 1..Len(Emitted) : Emitted[i].type # "type"

\* Pending text flushed by the wheel, ahead of the Scroll action.
C9_Witness ==
  /\ JustProcessed /\ LastEv.kind = "mousewheel" /\ Pre.currentText # <<>>
  /\ Len(Emitted) = 2 /\ Emitted[1].type = "type"
  /\ Emitted[2].type = "mousewheel"

\* The last event is a keydown that completes a modifier chord.
CompletesChord ==
  /\ LastEv.kind = "keydown" /\ ~isComboKey(LastEv.key)
  /\ Pre.activeModifiers # <<>> /\ Pre.activeModifiers # <<"Shift">>

\* C10: a keydown that is a special key, a modifier key, or that completes a
\* modifier chord leaves the text buffer empty, and text buffered before it
\* is emitted as a Type action ahead of the Hotkey of that keydown.
C10_KeysFlushText ==
  (JustProcessed /\ LastEv.kind = "keydown"
     /\ (isSpecialKey(LastEv.key) \/ CompletesChord))
  => currentText = <<>> /\ PendingFlushedFirst

----------------------------------------------------------------------------
(* Release of a modifier sequence *)

\* The last event is the keyup of a modifier that leaves no modifier held
\* while the sequence set is not empty.
ReleasesSequence ==
  /\ JustProcessed /\ LastEv.kind = "keyup" /\ isComboKey(LastEv.key)
  /\ SetDelete(Pre.activeModifiers, LastEv.key) = <<>>
  /\ Pre.sequenceModifiers # <<>>

\* C11: a modifier keyup that leaves the held set empty while the sequence
\* set is non-empty clears the sequence set, and emits exactly one Hotkey,
\* at the keyup's time and with the sequence modifiers as its combo, when no
\* text is pending; when text is pending it emits no Hotkey.
C11_ModifierReleaseHotkey ==
  ReleasesSequence
  => /\ sequenceModifiers = <<>>
     /\ Pre.currentText = <<>>
        => Emitted = <<HotkeyAction(LastTime, Pre.sequenceModifiers)>>
     /\ Pre.currentText # <<>>
        => \A i \in 1..Len(Emitted) : Emitted[i].type # "hotkey"

\* LeftCtrl pressed and released alone, with nothing typed.
C11_Witness ==
  /\ ReleasesSequence /\ Pre.currentText = <<>>
  /\ Pre.sequenceModifiers = <<"LeftCtrl">>
  /\ Emitted = <<HotkeyAction(LastTime, <<"LeftCtrl">>)>>

----------------------------------------------------------------------------
(* Conservation of the typed characters *)

RECURSIVE TypedText(_)
\* The texts of the Type actions of an output, concatenated in order.
TypedText(out) ==
  IF out = <<>> THEN <<>>
  ELSE (IF Head(out).type = "type" THEN Head(out).data.text ELSE <<>>)
       \o TypedText(Tail(out))

\* The state in which the k-th event of the log left the loop.
PostOf(k) == ProcessEvent(log[k].pre, log[k].e, log[k].t)

\* The character the k-th event appended to the buffer, if any: the buffer
\* changes only by a flush, which empties it, and by an append at its end.
AppendedBy(k) ==
  LET before == log[k].pre.currentText
      after == PostOf(k).currentText
  IN IF after # <<>> /\ after # before THEN <<after[Len(after)]>> ELSE <<>>

RECURSIVE AppendedUpTo(_)
AppendedUpTo(k) == IF k = 0 THEN <<>> ELSE AppendedUpTo(k - 1) \o AppendedBy(k)

\* C12: when processEvents returns, no typed text remains buffered, and the
\* texts of all Type actions, concatenated in output order, are exactly the
\* characters appended by the keydowns, in the order they were appended.
C12_CharactersConserved ==
  pc = "returned"
  => /\ currentText = <<>>
     /\ TypedText(processedEvents) = AppendedUpTo(Len(log))

\* Two Type actions, the second one flushed by the end of the stream: its
\* last character was appended by the last event.
C12_Witness ==
  /\ pc = "returned" /\ log # <<>>
  /\ AppendedBy(Len(log)) # <<>>
  /\ Cardinality({i \in 1..Len(processedEvents) :
                    processedEvents[i].type = "type"}) = 2
  /\ processedEvents[Len(processedEvents)].type = "type"

----------------------------------------------------------------------------
(* Type actions and the text buffer *)

IsType(a) == a.type = "type"

\* C13: no Type action has an empty text; an event that finds the buffer
\* empty and appends nothing to it emits no Type action, whatever flushes it
\* performs; a non-empty buffer always has a recorded start time.
C13_NoEmptyType ==
  /\ \A i \in 1..Len(processedEvents) :
       IsType(processedEvents[i]) => processedEvents[i].data.text # <<>>
  /\ currentText # <<>> => textStartTime # NULL
  /\ (JustProcessed /\ Pre.currentText = <<>>)
     => \A i \in 1..Len(Emitted) : ~IsType(Emitted[i])

\* Return pressed on an empty buffer after an earlier Type action: the
\* flush of the special key emits only the Hotkey.
C13_Witness ==
  /\ JustProcessed /\ LastEv = KeyDownEv("Return") /\ Pre.currentText = <<>>
  /\ \E i \in 1..Len(Pre.processedEvents) : IsType(Pre.processedEvents[i])
  /\ Emitted = <<HotkeyAction(LastTime, <<"Return">>)>>

----------------------------------------------------------------------------
(* Pointer actions and the mouse buttons *)

IsPointerAction(a) == a.type \in {"mouseclick", "mousedrag"}
PointerActions(out) == {i \in 1..Len(out) : IsPointerAction(out[i])}
LeftDowns == {k \in 1..Len(log) : IsLeftDown(log[k].e)}
LeftUps == {k \in 1..Len(log) : IsLeftUp(log[k].e)}

\* A left mousedown before the last event with no left mouseup in between.
UnmatchedLeftDown ==
  \E m \in LeftDowns :
    m < Len(log) /\ \A k \in (m + 1)..(Len(log) - 1) : k \notin LeftUps

\* C14: a left mouseup appends at most one Click or Drag, and none when no
\* left mousedown precedes it unmatched; no other event, in particular no
\* event of another button, appends a Click or a Drag; so the Click and
\* Drag actions are never more than the left mousedown events, nor more
\* than the left mouseup events.
C14_OnePointerActionPerPair ==
  /\ JustProcessed
     => /\ Cardinality(PointerActions(Emitted)) <= 1
        /\ IsLeftUp(LastEv) /\ ~UnmatchedLeftDown
           => PointerActions(Emitted) = {}
        /\ ~IsLeftUp(LastEv) => PointerActions(Emitted) = {}
  /\ Cardinality(PointerActions(processedEvents)) <= Cardinality(LeftDowns)
  /\ Cardinality(PointerActions(processedEvents)) <= Cardinality(LeftUps)

\* A Click from a left down/up pair with a right mouseup in between, which
\* neither ends the gesture nor emits anything.
C14_Witness ==
  /\ JustProcessed /\ Len(log) >= 3 /\ IsLeftUp(LastEv)
  /\ log[Len(log) - 1].e = MouseUpEv("Right")
  /\ IsLeftDown(log[Len(log) - 2].e)
  /\ Len(Emitted) = 1 /\ Emitted[1].type = "mouseclick"

\* The last event emitted a Drag.
DragEmitted ==
  JustProcessed /\ \E i \in 1..Len(Emitted) : Emitted[i].type = "mousedrag"

\* C15: every Drag action carries the default count of 8 points, so at
\* least 2, and a Drag is emitted only for a gesture that has accumulated
\* at least 2 points.
C15_DragPointCount ==
  /\ \A i \in 1..Len(processedEvents) :
       processedEvents[i].type = "mousedrag"
       => /\ Len(processedEvents[i].data.coordinates) = DefaultNumPoints
          /\ Len(processedEvents[i].data.coordinates) >= 2
  /\ DragEmitted => Len(Pre.accumulatedPoints) >= 2

\* A Drag of 8 points from the shortest gesture that qualifies: the point
\* of the mousedown and one move.
C15_Witness ==
  /\ DragEmitted /\ Len(Pre.accumulatedPoints) = 2
  /\ Len(Emitted[1].data.coordinates) = 8

----------------------------------------------------------------------------
(* resamplePoints *)

Returned == pc = "resampled"
ArgPoints == Val(call).points
ArgCount == Val(call).numPoints
Resampled == Val(Val(call).resampled)
ArgSegments == Segments(ArgPoints, Len(ArgPoints))
SamePosition(p, q) == p.x = q.x /\ p.y = q.y
\* The 1-based index of the segment end chosen for output point i.
SegmentOf(i) ==
  SegIdx(ArgSegments, 2,
         TargetLength(i - 1, ArgCount, ArgSegments[Len(ArgSegments)]))

\* C16: for a path of more than one point and a count n >= 2, the result
\* has exactly n points, its first point is the first point of the path,
\* its last point has the coordinates of the last point of the path, and
\* the segment chosen for every output point lies within the path.
C16_ResampleEndpoints ==
  (Returned /\ Len(ArgPoints) > 1 /\ ArgCount >= 2)
  => /\ Len(Resampled) = ArgCount
     /\ Resampled[1] = ArgPoints[1]
     /\ ~Resampled[ArgCount].nan
     /\ SamePosition(Resampled[ArgCount], ArgPoints[Len(ArgPoints)])
     /\ \A i \in 1..ArgCount : SegmentOf(i) <= Len(ArgPoints)

AllCoincide(points) ==
  \A k \in 1..Len(points) : SamePosition(points[k], points[1])

\* C17: for a path of two or more points that all coincide, every output
\* point is a defined point at the position of the first input point.
C17_DegeneratePath ==
  (Returned /\ Len(ArgPoints) >= 2 /\ AllCoincide(ArgPoints))
  => \A i \in 1..Len(Resampled) :
       ~Resampled[i].nan /\ SamePosition(Resampled[i], ArgPoints[1])

\* Consecutive points are all at the same distance.
IsUniform(points) ==
  \A k \in 2..(Len(points) - 1) :
    SegLen(points[k], points[k + 1]) = SegLen(points[1], points[2])

----------------------------------------------------------------------------
(* Pointer state after a mouseup *)

PointerIdle ==
  /\ ~mouseDown /\ mouseDownTime = NULL /\ mouseDownPos = NULL
  /\ accumulatedPoints = <<>>

\* C19: after a left mouseup the pointer state is reset (button up, no
\* down time, no down position, no accumulated points), whether the
\* mouseup emitted a Click, a Drag or nothing, and whatever the time of the
\* mousedown before it.
C19_MouseUpResetsPointer ==
  (JustProcessed /\ IsLeftUp(LastEv)) => PointerIdle

----------------------------------------------------------------------------
(* Epoch normalization *)

RECURSIVE RunLoop(_, _)
\* The locals of processEvents after the first k events of the input
\* events, a sequence of [e, time] with absolute times.
RunLoop(events, k) ==
  IF k = 0 THEN InitState
  ELSE ProcessEvent(RunLoop(events, k - 1), events[k].e,
                    RelTime(events[k].time, events[1].time))

\* The array processEvents returns for the input events.
processEvents(events) ==
  IF Len(events) = 0 THEN <<>>
  ELSE flushText(RunLoop(events, Len(events))).processedEvents

\* The input consumed so far, with c added to every event time.
ShiftedInput(c) ==
  [k \in 1..Len(log) |-> [e |-> log[k].e, time |-> log[k].abs + c]]

TimeShifts == {-1700, 250}

\* C20: every output timestamp is the time of an input event minus the time
\* of the first event, so the first event is read at relative time 0 and no
\* timestamp is negative; adding one constant to every input time leaves
\* the output unchanged.
C20_EpochNormalization ==
  /\ log # <<>> => log[1].t = 0
  /\ \A k \in 1..Len(log) : log[k].t = log[k].abs - log[1].abs
  /\ \A i \in 1..Len(processedEvents) :
       /\ processedEvents[i].timestamp >= 0
       /\ \E k \in 1..Len(log) :
            processedEvents[i].timestamp = log[k].abs - log[1].abs
  /\ pc = "returned"
     => \A c \in TimeShifts : processEvents(ShiftedInput(c)) = processedEvents

\* A log that starts at 1700 and returns actions at relative times 0 and
\* 500.
C20_Witness ==
  /\ pc = "returned" /\ log # <<>> /\ log[1].abs = 1700
  /\ \E i, j \in 1..Len(processedEvents) :
       processedEvents[i].timestamp = 0 /\ processedEvents[j].timestamp = 500

----------------------------------------------------------------------------
(* Events without their expected field *)

\* The last event is a mousemove without a position, a keydown or keyup
\* without a key, or a mousewheel without a delta.
LacksField ==
  /\ JustProcessed
  /\ \/ LastEv.kind = "mousemove" /\ LastEv.pos = NULL
     \/ LastEv.kind \in {"keydown", "keyup"} /\ LastEv.key = ""
     \/ LastEv.kind = "mousewheel" /\ LastEv.delta = NULL

\* C21: an event that lacks its expected field appends no action and
\* leaves the whole engine state unchanged.
C21_MalformedIgnored ==
  LacksField => Emitted = <<>> /\ Cur = Pre

\* The flush such an event still performs: the idle timeout for every
\* event, and the unconditional flush of a mousewheel event.
FlushesAnyway ==
  \/ LastEv.kind = "mousewheel"
  \/ LastTime - LastBufferedAt > IdleFlushMs

\* C21 as amended: an event that lacks its expected field appends no action
\* of its own and leaves the pointer state, the held modifiers, the last
\* key time and the last known position unchanged.  With no text pending
\* it changes nothing.  With text pending, a mousewheel event, and any
\* event later than 1000 ms after the last typed key, still flushes: the
\* pending text is emitted as one Type action and the text, its start time
\* and the sequence modifiers are cleared; otherwise nothing changes.
C21_MalformedOnlyFlushes ==
  LacksField
  => IF Pre.currentText # <<>> /\ FlushesAnyway
     THEN /\ Cur = flushText(Pre)
          /\ Len(Emitted) = 1 /\ Emitted[1].type = "type"
          /\ Emitted[1].data.text = Pre.currentText
     ELSE Emitted = <<>> /\ Cur = Pre

\* A mousewheel without delta flushes the pending text while a modifier is
\* held: the modifier stays held, the sequence set is cleared by the flush.
C21_Witness ==
  /\ LacksField /\ LastEv.kind = "mousewheel" /\ Pre.currentText # <<>>
  /\ Pre.activeModifiers # <<>> /\ Pre.sequenceModifiers # <<>>
  /\ Len(Emitted) = 1 /\ currentText = <<>>
  /\ activeModifiers = Pre.activeModifiers /\ sequenceModifiers = <<>>

----------------------------------------------------------------------------
(* Letters and Shift in the two vocabularies *)

\* The last event appended the character ch to the pending text.
Appended(ch) ==
  /\ currentText =
       Append(IdleFlush(Pre, LastTime).currentText, [ch |-> ch, at |-> LastTime])
NoHotkeyEmitted == \A i \in 1..Len(Emitted) : Emitted[i].type # "hotkey"
LetterDown == JustProcessed /\ LastEv \in {KeyDownEv("A"), KeyDownEv("KeyA")}

\* C22: with Shift as the only held modifier, under any of its names, a
\* keydown of the letter in either vocabulary appends the upper-case letter
\* and emits no Hotkey; with no modifier held it appends the lower-case
\* letter.
C22_LetterCase ==
  /\ (LetterDown /\ Pre.activeModifiers
                      \in {<<"Shift">>, <<"ShiftLeft">>, <<"ShiftRight">>})
     => Appended("A") /\ NoHotkeyEmitted
  /\ (LetterDown /\ Pre.activeModifiers = <<>>)
     => Appended("a") /\ NoHotkeyEmitted

----------------------------------------------------------------------------
(* Key ids of neither vocabulary *)

InVocabulary(key) ==
  \/ isComboKey(key) \/ isSpecialKey(key)
  \/ key \in DOMAIN symbolMap \/ key \in DOMAIN shiftSymbolMap
  \/ isWindowsLetter(key) \/ isMacLetter(key)
UnknownKeyDown ==
  /\ JustProcessed /\ LastEv.kind = "keydown" /\ LastEv.key # ""
  /\ ~InVocabulary(LastEv.key)
  /\ Pre.activeModifiers = <<>>

\* C23 as stated: a keydown whose key id belongs to neither vocabulary, with
\* no modifier held, appends the id's literal text to the pending text.
C23_UnknownKeyLiteral == UnknownKeyDown => Appended(LastEv.key)

\* C23 amended: such a keydown appends the id's text in lower case to the
\* pending text and emits no action of its own.
C23_UnknownKeyLowerCased ==
  UnknownKeyDown
  => /\ Appended(toLowerCase[LastEv.key])
     /\ NoHotkeyEmitted
     /\ \A i \in 1..Len(Emitted) : Emitted[i].timestamp # LastTime
     /\ activeModifiers = <<>>

C23_Witness ==
  /\ UnknownKeyDown /\ LastEv.key = "Foo"
  /\ Pre.currentText # <<>>
  /\ Len(currentText) = Len(Pre.currentText) + 1
  /\ currentText[Len(currentText)].ch = "foo"

----------------------------------------------------------------------------
(* Empty input *)

\* C24: processEvents on an empty event sequence returns an empty action
\* sequence and raises no error.
C24_EmptyInput ==
  (pc # "loop" /\ log = <<>>)
  => pc = "returned" /\ processedEvents = <<>> /\ Cur = InitState

C24_Witness == pc = "returned" /\ log = <<>> /\ processedEvents = <<>>

----------------------------------------------------------------------------
(* State local to one invocation *)

OtherRun == Val(other)
BothRunning ==
  /\ other # NULL
  /\ pc = "loop" /\ log # <<>>
  /\ OtherRun.pc = "loop" /\ OtherRun.events # <<>>

\* C25: when two invocations of processEvents take their loop iterations in
\* any interleaving, the locals of each are at every moment what a run of
\* that invocation alone gives after the same events of its own log, and
\* each returns the array it returns when run alone.
C25_InvocationsIndependent ==
  other # NULL
  => /\ pc = "loop" => Cur = RunLoop(ShiftedInput(0), Len(log))
     /\ pc = "returned"
        => processedEvents = processEvents(ShiftedInput(0))
     /\ OtherRun.pc = "loop"
        => OtherRun.state = RunLoop(OtherRun.events, Len(OtherRun.events))
     /\ OtherRun.pc = "returned"
        => OtherRun.state.processedEvents = processEvents(OtherRun.events)

C25_Witness ==
  /\ BothRunning
  /\ activeModifiers = <<"LeftCtrl">> /\ currentText # <<>>
  /\ OtherRun.state.activeModifiers = <<>>
  /\ OtherRun.state.processedEvents # <<>>
  /\ OtherRun.state.currentText = <<>>

----------------------------------------------------------------------------
(* A line of the input log that is not JSON *)

InputLines == Val(file).lines
HasBadLine == \E i \in 1..Len(InputLines) : InputLines[i].kind = "bad"
FirstBadLine ==
  CHOOSE i \in 1..Len(InputLines) :
    /\ InputLines[i].kind = "bad"
    /\ \A j \in 1..(i - 1) : InputLines[j].kind # "bad"

\* C26: if any line of the input log is not valid JSON, process() raises an
\* error at that line and returns no action sequence: processEvents is never
\* called, whatever valid records come before or after the line.
C26_MalformedLineFails ==
  (file # NULL /\ HasBadLine)
  => /\ pc \in {"parse", "threw"}
     /\ pc = "parse" <=> Val(file).next <= FirstBadLine
     /\ processedEvents = <<>> /\ log = <<>> /\ Cur = InitState

C26_Witness ==
  /\ file # NULL /\ pc = "threw"
  /\ Len(Val(file).events) = 2
  /\ Val(file).events[1].e = KeyDownEv("A")
  /\ processedEvents = <<>>

----------------------------------------------------------------------------
(* Grading *)

Graded == session # NULL /\ Session.result # NULL
Score == Val(Session.result).score
InRange(n) == ~n.nan /\ 0 <= n.v /\ n.v <= 100

\* C27: every result grade returns, and every scores.json written, has an
\* integer score between 0 and 100 inclusive, whatever text stands between
\* the answer tags.
C27_ScoreInRange ==
  /\ Graded => InRange(Score)
  /\ (session # NULL /\ Session.scores # NULL)
     => /\ Val(Session.scores).score # NULL
        /\ Val(Val(Session.scores).score) \in 0..100

Trace == Session.trace
Count(step) == Cardinality({i \in 1..Len(Trace) : Trace[i] = step})
SftFound == Session.sftAtStart = "readable"
\* Every call of grade comes after a run of the pipeline and a write of
\* sft.json, in this order.
GradeAfterPipeline ==
  \A k \in 1..Len(Trace) :
    Trace[k] = "grade"
    => \E i, j \in 1..k : i < j /\ Trace[i] = "pipeline" /\ Trace[j] = "writeSft"

\* C28: in grading mode, a session whose sft.json exists and is readable is
\* graded directly, grade being called once and the pipeline never run; for
\* any other session the pipeline runs and sft.json is written before grade
\* is called; scores.json is written only when grade returned a result.
C28_GradingMode ==
  session # NULL
  => /\ SftFound => /\ Count("pipeline") = 0
                    /\ Count("grade") <= 1
                    /\ Session.at = "done" => Count("grade") = 1
     /\ ~SftFound => GradeAfterPipeline
     /\ Session.scores # NULL => Session.result # NULL

----------------------------------------------------------------------------
(* Chord consumption *)

\* The actions the k-th event appended to the output.
EmittedBy(k) ==
  SubSeq(PostOf(k).processedEvents, Len(log[k].pre.processedEvents) + 1,
         Len(PostOf(k).processedEvents))
PlainKeyDown(k) ==
  log[k].e.kind = "keydown" /\ log[k].e.key # "" /\ ~isComboKey(log[k].e.key)
ModifierKeyDown(k) == log[k].e.kind = "keydown" /\ isComboKey(log[k].e.key)
\* The k-th event is a keydown that emitted a Hotkey of modifiers and key.
ChordBy(k) ==
  /\ PlainKeyDown(k)
  /\ \E i \in 1..Len(EmittedBy(k)) :
       /\ EmittedBy(k)[i].type = "hotkey"
       /\ Len(EmittedBy(k)[i].data.text) >= 2

\* C29: immediately after a keydown has emitted a chord Hotkey the held set
\* and the sequence set are both empty, and no further keydown of a
\* non-modifier key emits a chord Hotkey before a new modifier keydown, even
\* if the keyup of the chord's modifier has not been seen.
C29_ChordConsumed ==
  /\ (JustProcessed /\ ChordBy(Len(log)))
     => activeModifiers = <<>> /\ sequenceModifiers = <<>>
  /\ \A k \in 1..Len(log) : \A m \in (k + 1)..Len(log) :
       (/\ ChordBy(k) /\ PlainKeyDown(m)
        /\ \A j \in (k + 1)..(m - 1) : ~ModifierKeyDown(j))
       => ~ChordBy(m)

C29_Witness ==
  /\ JustProcessed /\ Len(log) = 4
  /\ log[1].e = KeyDownEv("LeftCtrl") /\ ChordBy(2)
  /\ log[3].e = KeyDownEv("Return") /\ log[4].e = KeyDownEv("A")
  /\ EmittedBy(3) = <<HotkeyAction(log[3].t, <<"Return">>)>>
  /\ Emitted = <<>> /\ Chars(currentText) = <<"a">>

----------------------------------------------------------------------------
(* Order of the modifiers in a combo *)

Modifiers == {"LeftCtrl", "LeftAlt"}
Members(set) == {set[i] : i \in 1..Len(set)}
IsKeyDownOf(j, m) == log[j].e = KeyDownEv(m)
Max0(S) == IF S = {} THEN 0 ELSE CHOOSE x \in S : \A y \in S : y <= x
Min0(S) == IF S = {} THEN 0 ELSE CHOOSE x \in S : \A y \in S : x <= y
\* The modifiers of set M in the order given by the index start[m].
InOrderOf(M, start) ==
  CHOOSE q \in [1..Cardinality(M) -> M] :
    /\ \A m \in M : \E i \in DOMAIN q : q[i] = m
    /\ \A i, j \in DOMAIN q : i < j => start[q[i]] < start[q[j]]

\* The last event before the k-th that left both sets empty.
LastCleared(k) ==
  Max0({j \in 1..(k - 1) : /\ PostOf(j).activeModifiers = <<>>
                           /\ PostOf(j).sequenceModifiers = <<>>})
\* The first keydown of m since the sets were last cleared.
FirstDownSinceCleared(m, k) ==
  Min0({j \in (LastCleared(k) + 1)..(k - 1) : IsKeyDownOf(j, m)})

\* The last event before the k-th that ended a hold of m: its keyup, or a
\* chord.
LastReleased(m, k) ==
  Max0({j \in 1..(k - 1) : log[j].e = KeyUpEv(m) \/ ChordBy(j)})
\* The keydown that began the hold of m the k-th event finds, 0 if m is
\* not held.
HoldStart(m, k) ==
  Min0({j \in (LastReleased(m, k) + 1)..(k - 1) : IsKeyDownOf(j, m)})
HeldBefore(k) == {m \in Modifiers : HoldStart(m, k) # 0}

\* The last event before the k-th that left the sequence set empty.
LastSequenceEmpty(k) ==
  Max0({j \in 1..(k - 1) : PostOf(j).sequenceModifiers = <<>>})
SequenceStart(m, k) ==
  Min0({j \in (LastSequenceEmpty(k) + 1)..(k - 1) : IsKeyDownOf(j, m)})
InSequenceBefore(k) == {m \in Modifiers : SequenceStart(m, k) # 0}

ChordEmitted == JustProcessed /\ ChordBy(Len(log))
ReleaseEmitted ==
  /\ JustProcessed /\ LastEv.kind = "keyup"
  /\ \E i \in 1..Len(Emitted) : Emitted[i].type = "hotkey"
ModifierPressed ==
  JustProcessed /\ LastEv.kind = "keydown" /\ isComboKey(LastEv.key)

\* C30 as stated: the combo of a Hotkey lists the modifiers in the order of
\* their first keydown since the sets were last cleared, followed for a chord
\* by the lowercased final key; a repeated keydown of a held modifier neither
\* duplicates it nor moves it, and pressing a modifier emits nothing.
C30_FirstKeydownOrder ==
  LET n == Len(log)
      first == [m \in Modifiers |-> FirstDownSinceCleared(m, n)]
  IN /\ ChordEmitted
        => Emitted[1].data.text =
             Append(InOrderOf(Members(Pre.activeModifiers), first),
                    toLowerCase[LastEv.key])
     /\ ReleaseEmitted
        => Emitted[1].data.text =
             InOrderOf(Members(Pre.sequenceModifiers), first)
     /\ ModifierPressed => Emitted = <<>>

\* C30 amended: a chord Hotkey lists the held modifiers in the order of the
\* keydowns that began their current holds, followed by the lowercased final
\* key; a release Hotkey lists the sequence modifiers in the order of their
\* first keydown since the sequence set was last empty; a repeated keydown
\* of a held modifier changes neither set, and a modifier keydown emits
\* nothing.
C30_HoldOrder ==
  LET n == Len(log)
      hold == [m \in Modifiers |-> HoldStart(m, n)]
      seq == [m \in Modifiers |-> SequenceStart(m, n)]
  IN /\ ChordEmitted
        => Emitted = <<HotkeyAction(LastTime,
                         Append(InOrderOf(HeldBefore(n), hold),
                                toLowerCase[LastEv.key]))>>
     /\ ReleaseEmitted
        => Emitted = <<HotkeyAction(LastTime,
                         InOrderOf(InSequenceBefore(n), seq))>>
     /\ ModifierPressed
        => /\ Emitted = <<>>
           /\ SetHas(Pre.activeModifiers, LastEv.key)
              => /\ activeModifiers = Pre.activeModifiers
                 /\ sequenceModifiers = Pre.sequenceModifiers

\* LeftCtrl, LeftAlt, LeftCtrl released and pressed again, then A.
C30_Witness ==
  /\ ChordEmitted /\ Len(log) = 5
  /\ log[1].e = KeyDownEv("LeftCtrl") /\ log[2].e = KeyDownEv("LeftAlt")
  /\ log[3].e = KeyUpEv("LeftCtrl") /\ log[4].e = KeyDownEv("LeftCtrl")
  /\ Emitted = <<HotkeyAction(LastTime, <<"LeftAlt", "LeftCtrl", "a">>)>>

----------------------------------------------------------------------------
(* Frame of mousemove and mousedown *)

MovedWithCoordinates ==
  JustProcessed /\ LastEv.kind = "mousemove" /\ LastEv.pos # NULL
NoPointerActionEmitted ==
  \A i \in 1..Len(Emitted) : ~IsPointerAction(Emitted[i])

\* C31: a mousemove with coordinates sets the last known position and
\* appends no pointer action; while the left button is down it appends
\* exactly the point {event time - mousedown time, x, y} to the accumulated
\* points, for every mousedown time including 0; while no button is down it
\* leaves the accumulated points and the rest of the pointer state unchanged.
C31_MouseMoveFrame ==
  MovedWithCoordinates
  => /\ lastKnownPos = LastEv.pos
     /\ NoPointerActionEmitted
     /\ mouseDown = Pre.mouseDown
     /\ mouseDownTime = Pre.mouseDownTime
     /\ mouseDownPos = Pre.mouseDownPos
     /\ accumulatedPoints =
          IF Pre.mouseDown
          THEN Append(Pre.accumulatedPoints,
                      Point(LastTime - Val(Pre.mouseDownTime),
                            Val(LastEv.pos).x, Val(LastEv.pos).y))
          ELSE Pre.accumulatedPoints

MouseDownProcessed == JustProcessed /\ LastEv.kind = "mousedown"
\* The state a mousedown finds once the pending text is flushed.
Flushed == flushText(IdleFlush(Pre, LastTime))
PointerStateOf(s) ==
  <<s.mouseDown, s.mouseDownTime, s.mouseDownPos, s.accumulatedPoints,
    s.lastKnownPos>>

\* C32: a left mousedown with a pointer position known from an earlier
\* mousemove sets mouseDown, records the current time and the last known
\* position as the down time and position, and seeds the accumulated points
\* with one point at that position with relative time 0; a mousedown before
\* any mousemove, or of another button, changes no pointer state.
C32_MouseDownRecorded ==
  MouseDownProcessed
  => IF LastEv.button = "Left" /\ Pre.lastKnownPos # NULL
     THEN /\ mouseDown
          /\ mouseDownTime = Some(LastTime)
          /\ mouseDownPos = Pre.lastKnownPos
          /\ accumulatedPoints =
               <<Point(0, Val(Pre.lastKnownPos).x, Val(Pre.lastKnownPos).y)>>
          /\ lastKnownPos = Pre.lastKnownPos
          /\ \E k \in 1..(Len(log) - 1) :
               log[k].e.kind = "mousemove" /\ log[k].e.pos = Pre.lastKnownPos
     ELSE PointerStateOf(Cur) = PointerStateOf(Pre)

\* A second left mousedown, at another position, replaces an open gesture.
C32_Witness ==
  /\ MouseDownProcessed /\ LastEv.button = "Left"
  /\ Pre.mouseDown /\ Len(Pre.accumulatedPoints) = 2
  /\ Pre.mouseDownPos # Pre.lastKnownPos
  /\ mouseDown /\ Len(accumulatedPoints) = 1
  /\ mouseDownPos = Pre.lastKnownPos /\ mouseDownTime = Some(LastTime)

----------------------------------------------------------------------------
(* Chunks *)

RECURSIVE Flatten(_)
Flatten(chunks) ==
  IF chunks = <<>> THEN <<>> ELSE Head(chunks) \o Flatten(Tail(chunks))

IsPrefix(a, b) == Len(a) <= Len(b) /\ \A k \in 1..Len(a) : a[k] = b[k]
Chunked == grader # NULL /\ pc = "chunked"
\* While the loop runs the chunks made so far are whole and cover the first
\* i messages.
ChunkProgress ==
  (grader # NULL /\ pc = "chunk")
  => /\ Chunking.i = Chunking.chunkSize * Len(Chunking.chunks)
     /\ Chunking.i < Len(Chunking.messages) + Chunking.chunkSize
     /\ IsPrefix(Flatten(Chunking.chunks), Chunking.messages)
ChunksCorrect ==
  Chunked
  => LET chunks == Chunking.chunks
         n == Len(chunks)
     IN /\ Flatten(chunks) = Chunking.messages
        /\ \A k \in 1..(n - 1) : Len(chunks[k]) = Chunking.chunkSize
        /\ n > 0 => Len(chunks[n]) \in 1..Chunking.chunkSize
        /\ Chunking.messages = <<>> => chunks = <<>>

\* C33: for a chunk size of at least 1 chunkMessages terminates, and the
\* chunks it returns are consecutive pieces whose concatenation is the input,
\* each of exactly chunkSize messages except the last, which has between 1
\* and chunkSize; an empty list gives no chunks.
C33_ChunkMessages ==
  /\ [](ChunkProgress /\ ChunksCorrect)
  /\ <>(pc = "chunked")

C33_Witness ==
  /\ Chunked /\ Len(Chunking.chunks) = 3 /\ Chunking.chunkSize = 3
  /\ Len(Chunking.chunks[3]) = 2

----------------------------------------------------------------------------
(* The chunk loop of grade *)

\* C34: the previous summary put into the prompt of a chunk is the summary
\* parsed from the most recent earlier evaluation that parsed, and is absent
\* only if there is none; a failed evaluation or a response without the
\* summary tag does not erase it.
C34_SummaryKept ==
  (grader # NULL /\ pc = "grade" /\ Grading.at \in {"loop", "response"})
  => Grading.prevSummary = Grading.lastParsed

\* A response came back without the tags its chunk needs.
LacksTags ==
  /\ GradeAt("response") /\ Grading.response # NULL
  /\ ~Parseable(Grading.response, IsFinal)
\* One step of the loop: the index never goes back and never skips a chunk,
\* and a chunk whose response lacks its tags is the next one evaluated.
InOrderWithRetry ==
  (grader # NULL /\ pc = "grade")
  => /\ Grading.i' >= Grading.i /\ Grading.i' <= Grading.i + 1
     /\ LacksTags => Grading.i' = Grading.i /\ Grading.at' = "loop"
     /\ Grading.i' = Grading.i + 1
        => \/ Grading.response = NULL
           \/ Parseable(Grading.response, FALSE) /\ ~IsFinal
ResultFromFinalChunk ==
  (grader # NULL /\ Grading.result # NULL)
  => /\ pc = "graded"
     /\ Val(Grading.result).chunk = Grading.totalChunks - 1

\* C35: grade evaluates the chunks in order, a chunk whose response lacks
\* its tags being evaluated again until a response parses; when every
\* request returns and a parseable response eventually arrives for each
\* chunk grade terminates, and it returns a result only from the evaluation
\* of the final chunk.
C35_GradeTerminates ==
  /\ [][InOrderWithRetry]_vars
  /\ []ResultFromFinalChunk
  /\ <>(pc = "graded")

\* The response to the final chunk of three lacks a tag, after the two
\* earlier chunks were summarised: the chunk is about to be evaluated again.
C35_Witness ==
  /\ LacksTags /\ IsFinal /\ Grading.totalChunks = 3
  /\ Val(Grading.response).summary /\ ~Val(Grading.response).answer
  /\ Grading.prevSummary = Some(1)

----------------------------------------------------------------------------
(* withRetry *)

\* The trace alternates invocations of fn and waits of `delay`, starting
\* with an invocation.
AlternatesCallAndWait ==
  \A k \in 1..Len(Retrying.trace) :
    Retrying.trace[k] =
      IF k % 2 = 1 THEN [op |-> "call", ms |-> 0]
      ELSE [op |-> "wait", ms |-> Retrying.delay]
InvocationsIn(trace) ==
  Cardinality({k \in 1..Len(trace) : trace[k].op = "call"})

\* C36: withRetry invokes fn one invocation at a time and at most `retries`
\* times; it returns the value of the first invocation that succeeds and
\* invokes fn no more; it waits `delay` between a failed invocation and the
\* next; if all `retries` invocations fail it throws the error of the last.
C36_WithRetry ==
  retry # NULL
  => /\ InvocationsIn(Retrying.trace) <= Retrying.retries
     /\ AlternatesCallAndWait
     /\ Calls \in {InvocationsIn(Retrying.trace),
                   InvocationsIn(Retrying.trace) - 1}
     /\ \A k \in 1..(Calls - 1) : Retrying.outcomes[k] = "rejected"
     /\ (Calls > 0 /\ Retrying.outcomes[Calls] = "fulfilled")
        => /\ Retrying.at = "returned"
           /\ Retrying.result = Some([value |-> Calls])
     /\ (Retrying.at = "returned" /\ Calls > 0)
        => /\ Retrying.outcomes[Calls] = "fulfilled"
           /\ InvocationsIn(Retrying.trace) = Calls
           /\ Len(Retrying.trace) = 2 * Calls - 1
     /\ (Calls = Retrying.retries /\ Calls > 0
         /\ Retrying.outcomes[Calls] = "rejected")
        => Retrying.at \in {"caught", "threw"}
     /\ Retrying.at = "threw"
        => /\ Calls = Retrying.retries
           /\ Retrying.error = Some(Retrying.retries)
           /\ Len(Retrying.trace) = 2 * Calls - 1
     /\ (Retrying.at = "returned" /\ Calls = 0) => Retrying.retries = 0
     /\ pc = "retried" <=> Retrying.at \in {"returned", "threw"}

\* Two invocations fail and the third, the last allowed, succeeds.
C36_Witness ==
  /\ retry # NULL /\ Retrying.at = "returned" /\ Retrying.retries = 3
  /\ Retrying.outcomes = <<"rejected", "rejected", "fulfilled">>
  /\ Retrying.delay = 1000 /\ Len(Retrying.trace) = 5

----------------------------------------------------------------------------
(* The downloader *)

Ids == 1..Loading.n
InFlight == {id \in Ids : Loading.stage[id] \in {"events", "guac", "encode", "pending"}}
AtMostFiveInFlight == Cardinality(InFlight) <= 5
AttemptedAtMostOnce == \A id \in Ids : Loading.starts[id] <= 1
\* An id has started only if every id of the earlier batches has settled.
BatchesInOrder ==
  \A id \in Ids : \A earlier \in Ids :
    (Loading.starts[id] > 0 /\ (earlier - 1) \div batchSize < (id - 1) \div batchSize)
    => Settled(earlier)
EveryIdAttempted == \A id \in Ids : Loading.starts[id] = 1

\* C37: every session id is attempted exactly once, in batches of at most
\* five: at most five ids are in flight, a batch starts only after the batch
\* before it has settled, and an error of one id neither rejects its batch
\* nor stops the later batches.
C37_Downloader ==
  /\ [](loader # NULL => AtMostFiveInFlight /\ AttemptedAtMostOnce /\ BatchesInOrder)
  /\ <>(loader # NULL /\ EveryIdAttempted)

----------------------------------------------------------------------------
(* Held modifiers and the sequence set *)

HotkeyEmitted == \E i \in 1..Len(Emitted) : Emitted[i].type = "hotkey"
\* The last event released a key that was not held.
ReleasedUnheld ==
  /\ JustProcessed /\ LastEv.kind = "keyup" /\ LastEv.key # ""
  /\ ~SetHas(Pre.activeModifiers, LastEv.key)

\* C38: whenever no modifier is held the sequence set is empty, and the
\* keyup of a key that is not held (a special key such as Return included)
\* emits no Hotkey.
C38_SequenceWithinHeld ==
  /\ activeModifiers = <<>> => sequenceModifiers = <<>>
  /\ ReleasedUnheld => ~HotkeyEmitted

\* Return is released, not held, right after a modifier was released over
\* pending text, which emptied the held set without emitting.
C38_Witness ==
  /\ ReleasedUnheld /\ LastEv = KeyUpEv("Return") /\ Len(log) >= 3
  /\ log[Len(log) - 1].e = KeyUpEv("LeftCtrl")
  /\ log[Len(log) - 1].pre.sequenceModifiers = <<"LeftCtrl">>
  /\ log[Len(log) - 1].pre.currentText # <<>>
  /\ Pre.activeModifiers = <<>> /\ Pre.sequenceModifiers = <<>>

----------------------------------------------------------------------------
(* Consistency of the pointer state *)

TimesNonDecreasing(points) ==
  \A k \in 1..(Len(points) - 1) : points[k].time <= points[k + 1].time

\* C39: the pointer is down exactly when a down position and a down time
\* are recorded and the accumulated points are non-empty (when it is up none
\* of the three is present); while it is down the first accumulated point is
\* the down position at relative time 0 and the relative times of the
\* accumulated points are non-decreasing.
C39_PointerConsistent ==
  /\ mouseDown <=> (/\ mouseDownPos # NULL /\ mouseDownTime # NULL
                    /\ accumulatedPoints # <<>>)
  /\ ~mouseDown => (/\ mouseDownPos = NULL /\ mouseDownTime = NULL
                    /\ accumulatedPoints = <<>>)
  /\ mouseDown
     => /\ accumulatedPoints[1] =
             Point(0, Val(mouseDownPos).x, Val(mouseDownPos).y)
        /\ TimesNonDecreasing(accumulatedPoints)

\* A gesture in progress, away from its down position, with two moves at
\* later and later times.
C39_Witness ==
  /\ mouseDown /\ Len(accumulatedPoints) = 3
  /\ accumulatedPoints[2].time = 500 /\ accumulatedPoints[3].time = 1000
  /\ lastKnownPos # mouseDownPos

====
